---------------------------- MODULE Spec2Model ----------------------------
(***************************************************************************)
(* Model of the rearc_quest ingestion code:                                *)
(*   - sync_bls_to_s3 (part4/lambda/ingestion/ingestion_handler.py and the *)
(*     identical logic of part1/bls_sync.py): the Sync Reconciler;         *)
(*   - ingest_population_data (Lambda handler and part2 script): the       *)
(*     Dataset Ingestor.                                                   *)
(* Strings (hrefs, S3 keys, prefixes, object bodies) are sequences of      *)
(* one-character strings so that str.replace, str.lstrip, os.path.basename *)
(* and the 'pr.' substring test are computed as Python computes them.      *)
(***************************************************************************)
EXTENDS Integers, Sequences, FiniteSets, TLC

(***************************** bounds *************************************)
\* sync runs explored in one behaviour
MaxRuns == 2
\* calls of ingest_population_data explored in one behaviour
MaxIngests == 3
\* calls of ingest_population_data that may be running at the same time
MaxInFlight == 2
\* writes of another process to the bucket while a function runs
MaxOtherWrites == 1
\* links on the remote directory page
MaxLinks == 2
\* objects in the store before the first run
MaxInitObjs == 2

(************************** Python string functions ***********************)
StartsWith(s, p) == Len(p) <= Len(s) /\ SubSeq(s, 1, Len(p)) = p

\* `sub in s`
Contains(s, sub) ==
    \E i \in 1..(Len(s) - Len(sub) + 1) : SubSeq(s, i, i + Len(sub) - 1) = sub

\* s.replace(old, ''): every non-overlapping occurrence, left to right, removed;
\* with old = '' the string is returned as it is.
RECURSIVE Replace(_, _)
Replace(s, old) ==
    IF old = <<>> \/ Len(s) < Len(old) THEN s
    ELSE IF StartsWith(s, old)
         THEN Replace(SubSeq(s, Len(old) + 1, Len(s)), old)
         ELSE <<Head(s)>> \o Replace(Tail(s), old)

\* s.lstrip(ch)
RECURSIVE LStrip(_, _)
LStrip(s, ch) == IF s # <<>> /\ Head(s) = ch THEN LStrip(Tail(s), ch) ELSE s

SetMax(S) == CHOOSE x \in S : \A y \in S : y <= x

\* os.path.basename(p): what follows the last '/'
basename(p) ==
    LET slashes == {i \in 1..Len(p) : p[i] = "/"}
    IN  IF slashes = {} THEN p ELSE SubSeq(p, SetMax(slashes) + 1, Len(p))

\* Code point of the characters the model uses (S3 lists keys in UTF-8
\* binary order; json.dumps(sort_keys=True) sorts keys by code point).
Ord(c) ==
    CASE c = " " -> 32 [] c = "\"" -> 34 [] c = "," -> 44 [] c = "." -> 46
      [] c = "/" -> 47 [] c = "0" -> 48 [] c = "1" -> 49 [] c = "2" -> 50
      [] c = "3" -> 51 [] c = "4" -> 52 [] c = "5" -> 53 [] c = "6" -> 54
      [] c = "7" -> 55 [] c = "8" -> 56 [] c = "9" -> 57 [] c = ":" -> 58
      [] c = "A" -> 65 [] c = "D" -> 68 [] c = "E" -> 69 [] c = "I" -> 73
      [] c = "J" -> 74 [] c = "L" -> 76 [] c = "N" -> 78 [] c = "O" -> 79
      [] c = "P" -> 80 [] c = "Q" -> 81 [] c = "R" -> 82 [] c = "S" -> 83
      [] c = "T" -> 84 [] c = "U" -> 85 [] c = "_" -> 95 [] c = "a" -> 97
      [] c = "b" -> 98 [] c = "c" -> 99 [] c = "d" -> 100 [] c = "e" -> 101
      [] c = "g" -> 103 [] c = "h" -> 104 [] c = "i" -> 105 [] c = "j" -> 106
      [] c = "k" -> 107 [] c = "l" -> 108 [] c = "m" -> 109 [] c = "n" -> 110
      [] c = "o" -> 111 [] c = "p" -> 112 [] c = "r" -> 114 [] c = "s" -> 115
      [] c = "t" -> 116 [] c = "u" -> 117 [] c = "v" -> 118 [] c = "x" -> 120
      [] c = "y" -> 121 [] c = "{" -> 123 [] c = "}" -> 125

\* a < b as Python compares str (and S3 orders keys)
RECURSIVE StrLess(_, _)
StrLess(a, b) ==
    IF b = <<>> THEN FALSE
    ELSE IF a = <<>> THEN TRUE
    ELSE IF Head(a) = Head(b) THEN StrLess(Tail(a), Tail(b))
    ELSE Ord(Head(a)) < Ord(Head(b))

\* The elements of a set of strings in ascending order
RECURSIVE SortStrs(_)
SortStrs(S) ==
    IF S = {} THEN <<>>
    ELSE LET m == CHOOSE x \in S : \A y \in S \ {x} : StrLess(x, y)
         IN  <<m>> \o SortStrs(S \ {m})

(************************** the remote site *******************************)
\* BLS_BASE_URL (its path): the directory whose listing is scraped
bls_url == <<"/", "t", "/">>

HrefTxt    == <<"/", "t", "/", "p", "r", ".", "t", "x", "t">>
HrefTxtAlt == <<"/", "u", "/", "p", "r", ".", "t", "x", "t">>
HrefData   == <<"p", "r", ".", "d", "a", "t", "a">>

\* The links a directory page may hold, in document order
AllHrefs == << <<".", ".", "/">>, HrefTxt, HrefTxtAlt, HrefData>>

\* the marker of `'pr.' in href`
Marker == <<"p", "r", ".">>

\* urljoin(bls_url, href) for the hrefs above: an absolute path replaces the
\* base path, a relative one replaces its last segment.
urljoin(base, href) ==
    IF href # <<>> /\ Head(href) = "/" THEN href
    ELSE SubSeq(base, 1, Len(base) - Len(basename(base))) \o href

BodyA == <<"a">>
BodyB == <<"b">>

\* resp.content of a successful GET of a file URL (the remote is unchanged
\* over a behaviour)
RemoteContent(url) ==
    CASE url = HrefTxt -> BodyA
      [] url = HrefTxtAlt -> BodyB
      [] url = bls_url \o HrefData -> BodyA

(***************************** the store **********************************)
\* hashlib.md5(body).hexdigest() for the bodies of the model
Md5Hex(body) ==
    CASE body = BodyA -> "0cc175b9c0f1b6a831c399e269772661"
      [] body = BodyB -> "92eb5ffee6ae2fec3ad71c777531578f"
      [] body = <<"{", "\"", "a", "\"", ":", " ", "1", ",", " ", "\"", "b", "\"", ":", " ", "1", "}">>
           -> "386b19932c82f3f9749dd6611e846293"
      [] body = <<"{", "\"", "b", "\"", ":", " ", "1", ",", " ", "\"", "a", "\"", ":", " ", "1", "}">>
           -> "c6fb1e59c1927f6877238417a890de3c"
      [] body = <<"{", "\"", "a", "\"", ":", " ", "1", ",", " ", "\"", "b", "\"", ":", " ", "2", "}">>
           -> "8aacdb17187e6acf2b175d4aa08d7213"
      [] body = <<"{", "\"", "b", "\"", ":", " ", "2", ",", " ", "\"", "a", "\"", ":", " ", "1", "}">>
           -> "5f23edf1d0f5fc5639ccde2e01b24da1"
      [] body = <<"{", "\"", "a", "\"", ":", " ", "2", ",", " ", "\"", "b", "\"", ":", " ", "1", "}">>
           -> "5e4d14d82c320bafb2f1286fe486d1f8"
      [] body = <<"{", "\"", "b", "\"", ":", " ", "1", ",", " ", "\"", "a", "\"", ":", " ", "2", "}">>
           -> "9c4b0be101fabffd9afc9fef430146ea"
      [] body = <<"{", "\"", "a", "\"", ":", " ", "2", ",", " ", "\"", "b", "\"", ":", " ", "2", "}">>
           -> "d48f81ad571306570e2eb9fe7920cd3c"
      [] body = <<"{", "\"", "b", "\"", ":", " ", "2", ",", " ", "\"", "a", "\"", ":", " ", "2", "}">>
           -> "f1f2e99c6781445c3ce7f47c07dd55da"
      [] body = <<"{", "\"", "a", "\"", ":", " ", "1", "}">>
           -> "42b7b4f2921788ea14dac5566e6f06d0"
      [] body = <<"{", "\"", "a", "\"", ":", " ", "2", "}">>
           -> "9f8a8e5ba8c70c774d410a9107e2a32b"
      [] body = <<"{", "\"", "n", "\"", ":", " ", "{", "\"", "a", "\"", ":", " ", "1", ",", " ", "\"", "b", "\"", ":", " ", "1", "}", "}">>
           -> "4370ff889fc3cb2a17425cf6bd8de1d9"
      [] body = <<"{", "\"", "n", "\"", ":", " ", "{", "\"", "b", "\"", ":", " ", "1", ",", " ", "\"", "a", "\"", ":", " ", "1", "}", "}">>
           -> "9684a60cb4de475ec73c63858c1032f5"
      [] body = <<"{", "\"", "n", "\"", ":", " ", "{", "\"", "a", "\"", ":", " ", "1", ",", " ", "\"", "b", "\"", ":", " ", "2", "}", "}">>
           -> "19943adb44dda99967c1e6ccad61082d"
      [] body = <<"{", "\"", "n", "\"", ":", " ", "{", "\"", "b", "\"", ":", " ", "2", ",", " ", "\"", "a", "\"", ":", " ", "1", "}", "}">>
           -> "f8b0ebe5e3256a3ce1df072970b5a99b"
      [] body = <<"{", "\"", "n", "\"", ":", " ", "{", "\"", "a", "\"", ":", " ", "2", ",", " ", "\"", "b", "\"", ":", " ", "1", "}", "}">>
           -> "dd806f3b6c6578c96d2dd9e01a39161e"
      [] body = <<"{", "\"", "n", "\"", ":", " ", "{", "\"", "b", "\"", ":", " ", "1", ",", " ", "\"", "a", "\"", ":", " ", "2", "}", "}">>
           -> "e894d8b37f45ca261d48172e31811a85"
      [] body = <<"{", "\"", "n", "\"", ":", " ", "{", "\"", "a", "\"", ":", " ", "2", ",", " ", "\"", "b", "\"", ":", " ", "2", "}", "}">>
           -> "0ff02fa5e6c7ae95069fe2668f69f629"
      [] body = <<"{", "\"", "n", "\"", ":", " ", "{", "\"", "b", "\"", ":", " ", "2", ",", " ", "\"", "a", "\"", ":", " ", "2", "}", "}">>
           -> "f276145880e92f2c47914c54e7f8f9e8"
      [] body = <<"{", "\"", "a", "\"", ":", " ", "1", ",", " ", "\"", "n", "\"", ":", " ", "{", "\"", "a", "\"", ":", " ", "1", ",", " ", "\"", "b", "\"", ":", " ", "1", "}", "}">>
           -> "333223dd5c0bb2777422046b4dabbd67"
      [] body = <<"{", "\"", "n", "\"", ":", " ", "{", "\"", "a", "\"", ":", " ", "1", ",", " ", "\"", "b", "\"", ":", " ", "1", "}", ",", " ", "\"", "a", "\"", ":", " ", "1", "}">>
           -> "2b31511a2352a7a0c193f04f49d6be4b"
      [] body = <<"{", "\"", "a", "\"", ":", " ", "2", ",", " ", "\"", "n", "\"", ":", " ", "{", "\"", "a", "\"", ":", " ", "1", ",", " ", "\"", "b", "\"", ":", " ", "1", "}", "}">>
           -> "1d568aaf126b1a07f34e85112b10a182"
      [] body = <<"{", "\"", "n", "\"", ":", " ", "{", "\"", "a", "\"", ":", " ", "1", ",", " ", "\"", "b", "\"", ":", " ", "1", "}", ",", " ", "\"", "a", "\"", ":", " ", "2", "}">>
           -> "54e00d51c5517fb93a43408be2f280af"
      [] body = <<"{", "\"", "n", "\"", ":", " ", "{", "\"", "b", "\"", ":", " ", "1", ",", " ", "\"", "a", "\"", ":", " ", "1", "}", ",", " ", "\"", "a", "\"", ":", " ", "1", "}">>
           -> "bc0cc8cbea73e6f90e1a182cebcfab2b"
      [] body = <<"{", "\"", "a", "\"", ":", " ", "1", ",", " ", "\"", "n", "\"", ":", " ", "{", "\"", "b", "\"", ":", " ", "1", ",", " ", "\"", "a", "\"", ":", " ", "1", "}", "}">>
           -> "11e982726dfa7dbfb18ebf3c6b1032e2"
      [] body = <<"{", "\"", "n", "\"", ":", " ", "{", "\"", "b", "\"", ":", " ", "1", ",", " ", "\"", "a", "\"", ":", " ", "1", "}", ",", " ", "\"", "a", "\"", ":", " ", "2", "}">>
           -> "0c7733aa9e592161c87424c059635124"
      [] body = <<"{", "\"", "a", "\"", ":", " ", "2", ",", " ", "\"", "n", "\"", ":", " ", "{", "\"", "b", "\"", ":", " ", "1", ",", " ", "\"", "a", "\"", ":", " ", "1", "}", "}">>
           -> "61f395ecb99b56e7cb94dcd9062b1ed7"
      [] body = <<"{", "\"", "a", "\"", ":", " ", "1", ",", " ", "\"", "n", "\"", ":", " ", "{", "\"", "a", "\"", ":", " ", "1", ",", " ", "\"", "b", "\"", ":", " ", "2", "}", "}">>
           -> "fe61a06c874b54b01447127c40ad211c"
      [] body = <<"{", "\"", "n", "\"", ":", " ", "{", "\"", "a", "\"", ":", " ", "1", ",", " ", "\"", "b", "\"", ":", " ", "2", "}", ",", " ", "\"", "a", "\"", ":", " ", "1", "}">>
           -> "85b5996fa24b2c181ba0123219c1d2f9"
      [] body = <<"{", "\"", "a", "\"", ":", " ", "2", ",", " ", "\"", "n", "\"", ":", " ", "{", "\"", "a", "\"", ":", " ", "1", ",", " ", "\"", "b", "\"", ":", " ", "2", "}", "}">>
           -> "27212c29d2130f553cf52107ea556c44"
      [] body = <<"{", "\"", "n", "\"", ":", " ", "{", "\"", "a", "\"", ":", " ", "1", ",", " ", "\"", "b", "\"", ":", " ", "2", "}", ",", " ", "\"", "a", "\"", ":", " ", "2", "}">>
           -> "4c589e14081177e915cd7ee27e005ebe"
      [] body = <<"{", "\"", "n", "\"", ":", " ", "{", "\"", "b", "\"", ":", " ", "2", ",", " ", "\"", "a", "\"", ":", " ", "1", "}", ",", " ", "\"", "a", "\"", ":", " ", "1", "}">>
           -> "0fc1e4f9efbef33a051efd3698f2eaa5"
      [] body = <<"{", "\"", "a", "\"", ":", " ", "1", ",", " ", "\"", "n", "\"", ":", " ", "{", "\"", "b", "\"", ":", " ", "2", ",", " ", "\"", "a", "\"", ":", " ", "1", "}", "}">>
           -> "5aafdc3e35ace11e92edb68ace6040ae"
      [] body = <<"{", "\"", "n", "\"", ":", " ", "{", "\"", "b", "\"", ":", " ", "2", ",", " ", "\"", "a", "\"", ":", " ", "1", "}", ",", " ", "\"", "a", "\"", ":", " ", "2", "}">>
           -> "2176fb1289c9ac40d3ead91b81c04af4"
      [] body = <<"{", "\"", "a", "\"", ":", " ", "2", ",", " ", "\"", "n", "\"", ":", " ", "{", "\"", "b", "\"", ":", " ", "2", ",", " ", "\"", "a", "\"", ":", " ", "1", "}", "}">>
           -> "7722aa6393a4d9888c78a2efb250f09d"
      [] body = <<"{", "\"", "a", "\"", ":", " ", "1", ",", " ", "\"", "n", "\"", ":", " ", "{", "\"", "a", "\"", ":", " ", "2", ",", " ", "\"", "b", "\"", ":", " ", "1", "}", "}">>
           -> "aff40fad45fea5db88b629d9608d1dad"
      [] body = <<"{", "\"", "n", "\"", ":", " ", "{", "\"", "a", "\"", ":", " ", "2", ",", " ", "\"", "b", "\"", ":", " ", "1", "}", ",", " ", "\"", "a", "\"", ":", " ", "1", "}">>
           -> "5b3c88e67783df348a18292af5990e7a"
      [] body = <<"{", "\"", "a", "\"", ":", " ", "2", ",", " ", "\"", "n", "\"", ":", " ", "{", "\"", "a", "\"", ":", " ", "2", ",", " ", "\"", "b", "\"", ":", " ", "1", "}", "}">>
           -> "90f654e6952075b40ba3f4341a324ac8"
      [] body = <<"{", "\"", "n", "\"", ":", " ", "{", "\"", "a", "\"", ":", " ", "2", ",", " ", "\"", "b", "\"", ":", " ", "1", "}", ",", " ", "\"", "a", "\"", ":", " ", "2", "}">>
           -> "5eaed23da8e52c809e879dcad5b8ed7c"
      [] body = <<"{", "\"", "n", "\"", ":", " ", "{", "\"", "b", "\"", ":", " ", "1", ",", " ", "\"", "a", "\"", ":", " ", "2", "}", ",", " ", "\"", "a", "\"", ":", " ", "1", "}">>
           -> "facc9c495f390749fae14f299179fec3"
      [] body = <<"{", "\"", "a", "\"", ":", " ", "1", ",", " ", "\"", "n", "\"", ":", " ", "{", "\"", "b", "\"", ":", " ", "1", ",", " ", "\"", "a", "\"", ":", " ", "2", "}", "}">>
           -> "f130582044e1ad9e244e54d4affb8071"
      [] body = <<"{", "\"", "n", "\"", ":", " ", "{", "\"", "b", "\"", ":", " ", "1", ",", " ", "\"", "a", "\"", ":", " ", "2", "}", ",", " ", "\"", "a", "\"", ":", " ", "2", "}">>
           -> "1296c0870de0eee4f20e4ff8b9ae6545"
      [] body = <<"{", "\"", "a", "\"", ":", " ", "2", ",", " ", "\"", "n", "\"", ":", " ", "{", "\"", "b", "\"", ":", " ", "1", ",", " ", "\"", "a", "\"", ":", " ", "2", "}", "}">>
           -> "42d902a1f00654270e7b71762bb076fc"
      [] body = <<"{", "\"", "a", "\"", ":", " ", "1", ",", " ", "\"", "n", "\"", ":", " ", "{", "\"", "a", "\"", ":", " ", "2", ",", " ", "\"", "b", "\"", ":", " ", "2", "}", "}">>
           -> "d3c43ecfab906a0e2c907e03bf42c7cf"
      [] body = <<"{", "\"", "n", "\"", ":", " ", "{", "\"", "a", "\"", ":", " ", "2", ",", " ", "\"", "b", "\"", ":", " ", "2", "}", ",", " ", "\"", "a", "\"", ":", " ", "1", "}">>
           -> "34f76787350f7a048e05a654520c2320"
      [] body = <<"{", "\"", "a", "\"", ":", " ", "2", ",", " ", "\"", "n", "\"", ":", " ", "{", "\"", "a", "\"", ":", " ", "2", ",", " ", "\"", "b", "\"", ":", " ", "2", "}", "}">>
           -> "a65a2cb7d28b3b9176f92c680c656af5"
      [] body = <<"{", "\"", "n", "\"", ":", " ", "{", "\"", "a", "\"", ":", " ", "2", ",", " ", "\"", "b", "\"", ":", " ", "2", "}", ",", " ", "\"", "a", "\"", ":", " ", "2", "}">>
           -> "7639da52d9f4d0c39e26d66d74fe54f7"
      [] body = <<"{", "\"", "n", "\"", ":", " ", "{", "\"", "b", "\"", ":", " ", "2", ",", " ", "\"", "a", "\"", ":", " ", "2", "}", ",", " ", "\"", "a", "\"", ":", " ", "1", "}">>
           -> "602464cc9bbbaba523e8eb67e78da6be"
      [] body = <<"{", "\"", "a", "\"", ":", " ", "1", ",", " ", "\"", "n", "\"", ":", " ", "{", "\"", "b", "\"", ":", " ", "2", ",", " ", "\"", "a", "\"", ":", " ", "2", "}", "}">>
           -> "71fba6a37353e945e3a6f46f4e45f1e5"
      [] body = <<"{", "\"", "n", "\"", ":", " ", "{", "\"", "b", "\"", ":", " ", "2", ",", " ", "\"", "a", "\"", ":", " ", "2", "}", ",", " ", "\"", "a", "\"", ":", " ", "2", "}">>
           -> "f226b5d48da51ff67c468622296cfb3a"
      [] body = <<"{", "\"", "a", "\"", ":", " ", "2", ",", " ", "\"", "n", "\"", ":", " ", "{", "\"", "b", "\"", ":", " ", "2", ",", " ", "\"", "a", "\"", ":", " ", "2", "}", "}">>
           -> "8975b2a4b2dfcec2cbf8923adf022896"
      [] body = <<"{", "\"", "a", "\"", ":", " ", "1", ",", " ", "\"", "b", "\"", ":", " ", "3", "}">>
           -> "f0dafc6d23ce6bd6fbaa5c94a2c9a2c0"
      [] body = <<"{", "\"", "b", "\"", ":", " ", "3", ",", " ", "\"", "a", "\"", ":", " ", "1", "}">>
           -> "cf414872a8db2768c106263c12e5a094"

\* The ETag S3 reports for an object written by one put_object: the MD5 hex
\* digest of the body inside double quotes.
ETag(body) == <<"\"", Md5Hex(body), "\"">>

\* obj['ETag'].strip('"')
StripQuotes(etag) == etag[2]

\* s3_client.put_object(Key=key, Body=body)
PutObject(st, key, body) ==
    [k \in DOMAIN st \cup {key} |-> IF k = key THEN body ELSE st[k]]

\* s3_client.delete_object(Key=key)
DeleteObject(st, key) == [k \in DOMAIN st \ {key} |-> st[k]]

\* list_objects_v2 paginated over Prefix: the keys that start with the prefix,
\* in ascending key order
ListObjects(st, prefix) ==
    SortStrs({k \in DOMAIN st : StartsWith(k, prefix)})


(************************* configuration and inputs ***********************)
PrefixEmpty == <<>>
PrefixBls   == <<"b", "l", "s", "/">>
PrefixData  == <<"d", "a", "t", "a">>

\* S3_BUCKET_PREFIX: empty, with a trailing separator, without one
Prefixes == {PrefixEmpty, PrefixBls, PrefixData}

KeyTxt      == <<"p", "r", ".", "t", "x", "t">>
KeyBlsTxt   == PrefixBls \o KeyTxt
KeyDataData == PrefixData \o HrefData
PopulationFile == <<"p", "o", "p", "u", "l", "a", "t", "i", "o", "n", "_",
                    "d", "a", "t", "a", ".", "j", "s", "o", "n">>

\* Keys an object may have before the first run, per configured prefix (all of
\* them are listed under that prefix)
InitKeys(prefix) ==
    CASE prefix = PrefixEmpty -> {KeyTxt, HrefData, KeyBlsTxt, PopulationFile}
      [] prefix = PrefixBls   -> {KeyBlsTxt, PrefixBls \o <<"o", "l", "d">>}
      [] prefix = PrefixData  -> {PrefixData \o KeyTxt,
                                  PrefixData \o <<"/">> \o KeyTxt, KeyDataData}

InitBodies == {BodyA, BodyB}

\* The stores the first run may find: at most MaxInitObjs objects
InitStores(prefix) ==
    UNION { [S -> InitBodies] :
            S \in {T \in SUBSET InitKeys(prefix) : Cardinality(T) <= MaxInitObjs} }

\* The sequence of the elements of AllHrefs with index in I, in page order
RECURSIVE PageOf(_, _)
PageOf(I, i) ==
    IF i > Len(AllHrefs) THEN <<>>
    ELSE (IF i \in I THEN <<AllHrefs[i]>> ELSE <<>>) \o PageOf(I, i + 1)

\* The directory pages: at most MaxLinks links
Pages ==
    { PageOf(I, 1) : I \in {J \in SUBSET (1..Len(AllHrefs)) : Cardinality(J) <= MaxLinks} }

(***************************** state **************************************)
VARIABLES
    s3_prefix,       \* configuration: S3_BUCKET_PREFIX
    page,            \* hrefs of the <a> elements of the remote directory page
    store,           \* the bucket: key -> body
    pc,              \* "idle" | "listed" | "items" | "deleting": position in
                     \* sync_bls_to_s3
    run,             \* number of sync runs that have ended
    existing_files,  \* normalized name -> ETag, listed at the start of the run
    files,           \* the discovered items, [name, url]
    idx,             \* index in files of the next item of the upload loop
    stats,           \* [uploaded, failed, skipped, deleted]
    current_files,   \* set of basenames, computed before the deletion pass
    del_list,        \* keys of the deletion pass's listing still to visit
    store0,          \* history: the store when the current run started
    item_log,        \* history: one record per processed item
    del_listing,     \* history: keys the deletion pass listed
    del_log,         \* history: one record per delete_object call
    result,          \* what the last run returned (or that it raised)
    prev_clean,      \* history: the run before the current one ended without any failure
    listing_ok,      \* history: the current run fetched the directory page
    impl,            \* which ingest_population_data is deployed: "lambda" | "script"
    api_data,        \* the dataset the population API serves (unchanged over a behaviour)
    ingest_log,      \* history: one record per call of ingest_population_data
                     \* that ended, in the order the calls ended
    calls,           \* the running calls of ingest_population_data: for each,
                     \* the blocking call it waits for and its local variables
    fp,              \* history: the payloads fingerprinted so far, [data, hash]
    an_store,        \* the bucket the analytics function reads: key -> content
    an_result,       \* the analytics invocation: where it is (at), the keys it
                     \* listed and the fragments it has read; once it is
                     \* done its inputs, tables and response
    hpc,             \* position in the ingestion lambda_handler:
                     \* "off" | "start" | "sync" | "ingest" | "done"
    h_env,           \* which of its environment variables are set
    h_result,        \* what the ingestion lambda_handler returned
    other_log,       \* history: the writes of another process to the bucket
    stopped          \* history: whether and where a run was stopped

ingest_vars == <<impl, api_data, ingest_log, calls>>

an_vars == <<an_store, an_result>>

handler_vars == <<hpc, h_env, h_result>>

shared_vars == <<other_log, stopped>>

ext_vars == <<fp, an_vars, handler_vars, shared_vars>>

\* The ingestion lambda_handler is not running
NoEnv == [configured |-> FALSE, bls_url |-> FALSE, population_api_url |-> FALSE]
NoHandlerResult == [kind |-> "none"]

\* No analytics invocation has begun
NoAnResult == [done |-> FALSE, at |-> "start"]

\* No run was stopped
NoStop == [happened |-> FALSE]

\* No call of ingest_population_data runs in this slot
NoCall == [stage |-> "none"]

sync_vars == <<s3_prefix, page, store, pc, run, existing_files, files, idx,
               stats, current_files, del_list, store0, item_log, del_listing,
               del_log, result, prev_clean, listing_ok>>

vars == <<s3_prefix, page, store, pc, run, existing_files, files, idx, stats,
          current_files, del_list, store0, item_log, del_listing, del_log,
          result, prev_clean, listing_ok, ingest_vars, ext_vars>>

ZeroStats == [uploaded |-> 0, failed |-> 0, skipped |-> 0, deleted |-> 0]

NoResult == [kind |-> "none", stats |-> ZeroStats]

EmptyMap == [k \in {} |-> ""]

(************************* sync_bls_to_s3 *********************************)
\* key.replace(s3_prefix, '').lstrip('/')
norm_name(key, prefix) == LStrip(Replace(key, prefix), "/")

\* get_existing_files(): over the listing in order, existing[fname] = ETag
\* (a later key with the same normalized name overwrites an earlier one)
get_existing_files(st, prefix) ==
    LET keys == ListObjects(st, prefix)
        RECURSIVE build(_, _)
        build(i, existing) ==
            IF i > Len(keys) THEN existing
            ELSE LET fname == norm_name(keys[i], prefix)
                     etag  == StripQuotes(ETag(st[keys[i]]))
                 IN  build(i + 1,
                           [n \in DOMAIN existing \cup {fname} |->
                               IF n = fname THEN etag ELSE existing[n]])
    IN  build(1, EmptyMap)

\* Mutant: the fingerprint is not compared, a known name is never uploaded
file_needs_upload_name_only(filename, content, existing) ==
    LStrip(filename, "/") \notin DOMAIN existing

\* file_needs_upload(filename, content, existing_files)
file_needs_upload(filename, content, existing) ==
    LET nn == LStrip(filename, "/")
    IN  IF nn \notin DOMAIN existing THEN TRUE
        ELSE existing[nn] # Md5Hex(content)

\* `if href and 'pr.' in href and href not in ['../', '/']`
IsFileLink(href) ==
    /\ href # <<>>
    /\ Contains(href, Marker)
    /\ href \notin {<<".", ".", "/">>, <<"/">>}

\* files: one {'name': href, 'url': urljoin(bls_url, href)} per matching link
discover(pg) ==
    LET links == SelectSeq(pg, IsFileLink)
    IN  [i \in 1..Len(links) |-> [name |-> links[i], url |-> urljoin(bls_url, links[i])]]

\* s3_key = f"{s3_prefix}{basename}" if s3_prefix else basename
s3_key(prefix, bname) == IF prefix # <<>> THEN prefix \o bname ELSE bname

\* The path one iteration of the upload loop takes: the GET raises
\* ("fetch_failed"), the item is skipped, put_object succeeds ("uploaded") or
\* put_object raises ("put_failed")
ItemOutcome(fetch_ok, needs, put_ok) ==
    IF ~fetch_ok THEN "fetch_failed"
    ELSE IF ~needs THEN "skipped"
    ELSE IF put_ok THEN "uploaded" ELSE "put_failed"

\* Mutant: uploaded is incremented before put_object is called
StatsAfterItem_uploaded_early(st, outcome) ==
    CASE outcome = "uploaded" -> [st EXCEPT !.uploaded = @ + 1]
      [] outcome = "skipped"  -> [st EXCEPT !.skipped = @ + 1]
      [] outcome = "fetch_failed" -> [st EXCEPT !.failed = @ + 1]
      [] outcome = "put_failed" -> [st EXCEPT !.uploaded = @ + 1, !.failed = @ + 1]

\* stats after one iteration of the upload loop
StatsAfterItem(st, outcome) ==
    CASE outcome = "uploaded" -> [st EXCEPT !.uploaded = @ + 1]
      [] outcome = "skipped"  -> [st EXCEPT !.skipped = @ + 1]
      [] outcome \in {"fetch_failed", "put_failed"} -> [st EXCEPT !.failed = @ + 1]

\* A run that returned stats after fetching the directory page and met no
\* failure of a GET, a put_object or a delete_object
RunClean(res, listed, dlog) ==
    /\ res.kind = "stats"
    /\ listed
    /\ res.stats.failed = 0
    /\ \A i \in 1..Len(dlog) : dlog[i].ok

\* Mutant: the except branch does not return, the run falls through to the
\* upload loop and the deletion pass with an empty `files`
PcAfterDirectoryFetch_fall_through(dir_ok) == "items"

\* Where the run goes after the try block of the directory fetch: on to the
\* upload loop, or `return stats` from the except branch (pc "idle")
PcAfterDirectoryFetch(dir_ok) == IF dir_ok THEN "items" ELSE "idle"

\* Lines 27-46: stats is set up and get_existing_files() lists the bucket.
\* The call of list_objects_v2 is the first of the run's blocking calls; the
\* run then waits for the directory page (pc "listed").
SyncStart ==
    /\ pc = "idle"
    /\ run < MaxRuns
    /\ store0' = store
    /\ prev_clean' = RunClean(result, listing_ok, del_log)
    /\ item_log' = <<>>
    /\ del_listing' = {}
    /\ del_log' = <<>>
    /\ stats' = ZeroStats
    /\ idx' = 1
    /\ current_files' = {}
    /\ del_list' = <<>>
    /\ files' = <<>>
    /\ listing_ok' = FALSE
    /\ \E list_ok \in BOOLEAN :
         IF ~list_ok
         THEN \* get_existing_files() raises: the exception leaves the function
              /\ existing_files' = EmptyMap
              /\ result' = [kind |-> "raised", stats |-> ZeroStats]
              /\ pc' = "idle"
              /\ run' = run + 1
         ELSE /\ existing_files' = get_existing_files(store, s3_prefix)
              /\ result' = NoResult
              /\ pc' = "listed"
              /\ run' = run
    /\ UNCHANGED <<s3_prefix, page, store, ingest_vars, ext_vars>>

\* Lines 48-70: the directory page is fetched (session.get) and its links
\* collected; when the fetch raises, the except branch returns stats.
FetchDirectory ==
    /\ pc = "listed"
    /\ \E dir_ok \in BOOLEAN :
         /\ files' = IF dir_ok THEN discover(page) ELSE <<>>
         /\ listing_ok' = dir_ok
         /\ pc' = PcAfterDirectoryFetch(dir_ok)
         /\ IF pc' = "idle"
            THEN /\ result' = [kind |-> "stats", stats |-> ZeroStats]
                 /\ run' = run + 1
            ELSE /\ result' = NoResult
                 /\ run' = run
    /\ UNCHANGED <<s3_prefix, page, store, existing_files, idx, stats,
                   current_files, del_list, store0, item_log, del_listing,
                   del_log, prev_clean, ingest_vars, ext_vars>>

\* Lines 72-94: one iteration of `for file_info in files`
ProcessItem ==
    /\ pc = "items"
    /\ idx <= Len(files)
    /\ \E fetch_ok \in BOOLEAN, put_ok \in BOOLEAN :
         LET bname   == basename(files[idx].name)
             key     == s3_key(s3_prefix, bname)
             content == RemoteContent(files[idx].url)
             needs   == file_needs_upload(bname, content, existing_files)
             outcome == ItemOutcome(fetch_ok, needs, put_ok)
         IN  /\ store' = IF outcome = "uploaded"
                         THEN PutObject(store, key, content) ELSE store
             /\ stats' = StatsAfterItem(stats, outcome)
             /\ item_log' = Append(item_log,
                    [name |-> files[idx].name, basename |-> bname, key |-> key,
                     fetched |-> fetch_ok, outcome |-> outcome])
    /\ idx' = idx + 1
    /\ UNCHANGED <<s3_prefix, page, pc, run, existing_files, files,
                   current_files, del_list, store0, del_listing, del_log,
                   result, prev_clean, listing_ok, ingest_vars, ext_vars>>

\* Mutant: the deletion pass reuses the listing taken at the start of the run
deletion_listing_reused(st, st0, prefix) == ListObjects(st0, prefix)

\* Lines 98-100: the deletion pass paginates list_objects_v2 again; st is the
\* bucket now, st0 the bucket as get_existing_files() listed it (not consulted)
deletion_listing(st, st0, prefix) == ListObjects(st, prefix)

\* Lines 96-100: current_files and the fresh listing of the deletion pass
ListForDeletion ==
    /\ pc = "items"
    /\ idx > Len(files)
    /\ current_files' = {basename(files[i].name) : i \in 1..Len(files)}
    /\ \E list_ok \in BOOLEAN :
         IF list_ok
         THEN /\ del_list' = deletion_listing(store, store0, s3_prefix)
              /\ del_listing' = {del_list'[i] : i \in 1..Len(del_list')}
              /\ pc' = "deleting"
              /\ UNCHANGED <<run, result>>
         ELSE /\ del_list' = <<>>
              /\ del_listing' = {}
              /\ pc' = "idle"
              /\ run' = run + 1
              /\ result' = [kind |-> "raised", stats |-> stats]
    /\ UNCHANGED <<s3_prefix, page, store, existing_files, files, idx, stats,
                   store0, item_log, del_log, prev_clean, listing_ok, ingest_vars, ext_vars>>

\* `if norm_name not in current_files`
IsStale(key, prefix, current) == norm_name(key, prefix) \notin current

\* Mutant: deleted is incremented before delete_object is called
StatsAfterDelete_counted_early(st, ok) == [st EXCEPT !.deleted = @ + 1]

\* stats after a delete_object call
StatsAfterDelete(st, ok) == IF ok THEN [st EXCEPT !.deleted = @ + 1] ELSE st

\* Mutant: the try block is around the loop, a failed delete ends the pass
RestAfterDelete_abort(rest, ok) == IF ok THEN Tail(rest) ELSE <<>>

\* The keys still to visit after a delete_object call
RestAfterDelete(rest, ok) == Tail(rest)

\* Lines 102-112: one listed object of the deletion pass
DeleteStep ==
    /\ pc = "deleting"
    /\ del_list # <<>>
    /\ LET key == Head(del_list)
       IN  IF IsStale(key, s3_prefix, current_files)
           THEN \E delete_ok \in BOOLEAN :
                  /\ store' = IF delete_ok THEN DeleteObject(store, key) ELSE store
                  /\ stats' = StatsAfterDelete(stats, delete_ok)
                  /\ del_log' = Append(del_log, [key |-> key, ok |-> delete_ok])
                  /\ del_list' = RestAfterDelete(del_list, delete_ok)
           ELSE /\ del_list' = Tail(del_list)
                /\ UNCHANGED <<store, stats, del_log>>
    /\ UNCHANGED <<s3_prefix, page, pc, run, existing_files, files, idx,
                   current_files, store0, item_log, del_listing, result,
                   prev_clean, listing_ok, ingest_vars, ext_vars>>

\* Lines 114-115: return stats
SyncReturn ==
    /\ pc = "deleting"
    /\ del_list = <<>>
    /\ result' = [kind |-> "stats", stats |-> stats]
    /\ pc' = "idle"
    /\ run' = run + 1
    /\ UNCHANGED <<s3_prefix, page, store, existing_files, files, idx, stats,
                   current_files, del_list, store0, item_log, del_listing,
                   del_log, prev_clean, listing_ok, ingest_vars, ext_vars>>

(********************** ingest_population_data ****************************)
\* JSON values: a number or an object, whose members are kept in document
\* order (as json.loads builds a dict)
Num(n) == [t |-> "num", n |-> n]
Obj(items) == [t |-> "obj", items |-> items]

DocAB   == Obj(<< <<(<<"a">>), Num(1)>>, <<(<<"b">>), Num(2)>> >>)
DocBA   == Obj(<< <<(<<"b">>), Num(2)>>, <<(<<"a">>), Num(1)>> >>)
DocAB3  == Obj(<< <<(<<"a">>), Num(1)>>, <<(<<"b">>), Num(3)>> >>)

\* resp.json() of a successful call of the population API: the same data,
\* with the members of an object in any order
ApiResponses(ds) ==
    CASE ds = "v2" -> {DocAB, DocBA}
      [] ds = "v3" -> {DocAB3, Obj(<< <<(<<"b">>), Num(3)>>, <<(<<"a">>), Num(1)>> >>)}
      [] ds = "nested" -> {Obj(<< <<(<<"n">>), DocAB>> >>), Obj(<< <<(<<"n">>), DocBA>> >>)}

\* Mutant: the members stay in document order
SortItems_document_order(items) == items

\* The members of an object sorted by key
RECURSIVE SortItems(_)
SortItems(items) ==
    IF items = <<>> THEN <<>>
    ELSE LET m == CHOOSE i \in 1..Len(items) :
                    \A j \in 1..Len(items) \ {i} : StrLess(items[i][1], items[j][1])
         IN  <<items[m]>> \o
             SortItems(SubSeq(items, 1, m - 1) \o SubSeq(items, m + 1, Len(items)))

\* json.dumps(v, sort_keys=sort_keys), default separators (', ' and ': ')
RECURSIVE dumps(_, _)
dumps(v, sort_keys) ==
    IF v.t = "num" THEN <<CASE v.n = 1 -> "1" [] v.n = 2 -> "2" [] v.n = 3 -> "3">>
    ELSE LET items == IF sort_keys THEN SortItems(v.items) ELSE v.items
             RECURSIVE join(_)
             join(i) ==
                 IF i > Len(items) THEN <<>>
                 ELSE (IF i > 1 THEN <<",", " ">> ELSE <<>>)
                      \o <<"\"">> \o items[i][1] \o <<"\"", ":", " ">>
                      \o dumps(items[i][2], sort_keys) \o join(i + 1)
         IN  <<"{">> \o join(1) \o <<"}">>

\* json_bytes = json.dumps(data, sort_keys=True).encode('utf-8')
json_bytes(data) == dumps(data, TRUE)

\* The key the population object is written to: the Lambda handler writes to
\* the bucket root, the part2 script under the configured prefix.
ingest_key(im, prefix) ==
    IF im = "lambda" THEN PopulationFile ELSE s3_key(prefix, PopulationFile)

\* s3_client.head_object(Key=key) when the store answers
HeadObject(st, key) ==
    IF key \in DOMAIN st THEN [found |-> TRUE, etag |-> ETag(st[key])]
    ELSE [found |-> FALSE, etag |-> <<"\"", "", "\"">>]

\* What the lookup of the existing object leads to: "skip", "upload", "error"
\* (return ERROR) or "raise". head is "ok" (the store answered: the object or
\* a 404), "client_error" (a ClientError other than 404) or "other_error" (an
\* exception that is no ClientError).
\* Lambda handler: lines 142-156; part2 script: lines 48-54.
LookupDecision(im, head, existing, new_hash) ==
    IF head = "ok"
    THEN IF existing.found /\ StripQuotes(existing.etag) = new_hash
         THEN "skip" ELSE "upload"
    ELSE IF im = "script" THEN "upload"
    ELSE IF head = "client_error" THEN "error" ELSE "raise"

\* What requests.get(...), resp.raise_for_status() and resp.json() may do in
\* one call: all three succeed, the request fails (requests.get or
\* raise_for_status raises) or the body is no JSON (resp.json() raises)
FetchOutcomes == {"ok", "request_failed", "bad_json"}

\* Mutant: the failure of the API call is not caught
fetch_failure_raises(st, before) ==
    [store |-> st, status |-> "RAISED", hash |-> "", wrote |-> FALSE,
     fault |-> TRUE, before |-> before]

\* The except branch of the API call: the call returns an ERROR result
fetch_failure(st, before) ==
    [store |-> st, status |-> "ERROR", hash |-> "", wrote |-> FALSE,
     fault |-> TRUE, before |-> before]

\* One call of ingest_population_data: the store after it and the call's
\* record. body is json_bytes of the data the API returned, existing what
\* head_object answered when the call looked the object up, st the bucket
\* when the call gets to put_object.
ingest_population_data(im, st, prefix, fetch_ok, body, head, existing, put_ok) ==
    LET key      == ingest_key(im, prefix)
        new_hash == Md5Hex(body)
        before   == IF existing.found THEN StripQuotes(existing.etag) ELSE "absent"
        decision == LookupDecision(im, head, existing, new_hash)
    IN  IF ~fetch_ok
        THEN fetch_failure(st, before)
        ELSE CASE decision = "skip" ->
                    [store |-> st, status |-> "SKIPPED", hash |-> new_hash,
                     wrote |-> FALSE, fault |-> FALSE, before |-> before]
               [] decision = "error" ->
                    [store |-> st, status |-> "ERROR", hash |-> "",
                     wrote |-> FALSE, fault |-> TRUE, before |-> before]
               [] decision = "raise" ->
                    [store |-> st, status |-> "RAISED", hash |-> "",
                     wrote |-> FALSE, fault |-> TRUE, before |-> before]
               [] decision = "upload" ->
                    IF put_ok
                    THEN [store |-> PutObject(st, key, body), status |-> "UPDATED",
                          hash |-> new_hash, wrote |-> TRUE,
                          fault |-> head # "ok", before |-> before]
                    ELSE [store |-> st, status |-> "ERROR", hash |-> "",
                          wrote |-> FALSE, fault |-> TRUE, before |-> before]

\* The record of a call that ended with the result r: fetch and head are the
\* outcomes of its API call and of its lookup ("none": the call did not get
\* that far), began the number of calls that had ended when it began, slot
\* the place it had among the running calls
call_record(r, fetch, head, began, slot) ==
    [status |-> r.status, hash |-> r.hash, wrote |-> r.wrote,
     fault |-> r.fault, before |-> r.before, fetch |-> fetch,
     lookup |-> IF head = "none" THEN "none"
                ELSE IF head = "ok" THEN "ok" ELSE "failed",
     began |-> began, slot |-> slot]

\* Lines 118-139: a call of ingest_population_data begins (between sync runs)
\* with requests.get, raise_for_status and resp.json(); it returns ERROR from
\* the except branch, or serializes the data (json_bytes) and goes on to
\* head_object
IngestStart ==
    /\ pc = "idle"
    /\ Len(ingest_log) + Cardinality({c \in DOMAIN calls : calls[c] # NoCall})
          < MaxIngests
    /\ \E c \in DOMAIN calls, fetch \in FetchOutcomes, data \in ApiResponses(api_data) :
         /\ calls[c] = NoCall
         /\ \A d \in 1..(c - 1) : calls[d] # NoCall
         /\ IF fetch = "ok"
            THEN /\ calls' = [calls EXCEPT ![c] =
                        [stage |-> "head_object", json_bytes |-> json_bytes(data),
                         began |-> Len(ingest_log)]]
                 /\ UNCHANGED ingest_log
            ELSE LET r == ingest_population_data(impl, store, s3_prefix, FALSE,
                              <<>>, "none",
                              HeadObject(store, ingest_key(impl, s3_prefix)), FALSE)
                 IN  /\ ingest_log' = Append(ingest_log,
                            call_record(r, fetch, "none", Len(ingest_log), c))
                     /\ UNCHANGED calls
    /\ UNCHANGED <<s3_prefix, page, store, pc, run, existing_files, files, idx,
                   stats, current_files, del_list, store0, item_log, del_listing,
                   del_log, result, prev_clean, listing_ok, impl, api_data, ext_vars>>

\* Lines 142-156: head_object answers a running call, which returns SKIPPED,
\* returns ERROR, raises, or goes on to put_object
IngestLookup ==
    /\ \E c \in DOMAIN calls, head \in {"ok", "client_error", "other_error"} :
         /\ calls[c].stage = "head_object"
         /\ LET existing == HeadObject(store, ingest_key(impl, s3_prefix))
                r == ingest_population_data(impl, store, s3_prefix, TRUE,
                                            calls[c].json_bytes, head, existing, TRUE)
            IN  IF r.status = "UPDATED"
                THEN /\ calls' = [calls EXCEPT ![c] =
                            [stage |-> "put_object",
                             json_bytes |-> calls[c].json_bytes,
                             began |-> calls[c].began, head |-> head,
                             existing |-> existing]]
                     /\ UNCHANGED ingest_log
                ELSE /\ ingest_log' = Append(ingest_log,
                            call_record(r, "ok", head, calls[c].began, c))
                     /\ calls' = [calls EXCEPT ![c] = NoCall]
    /\ UNCHANGED <<s3_prefix, page, store, pc, run, existing_files, files, idx,
                   stats, current_files, del_list, store0, item_log, del_listing,
                   del_log, result, prev_clean, listing_ok, impl, api_data, ext_vars>>

\* Lines 158-177: put_object of a running call, which returns UPDATED or,
\* when put_object raises, ERROR
IngestPut ==
    /\ \E c \in DOMAIN calls, put_ok \in BOOLEAN :
         /\ calls[c].stage = "put_object"
         /\ LET r == ingest_population_data(impl, store, s3_prefix, TRUE,
                                            calls[c].json_bytes, calls[c].head,
                                            calls[c].existing, put_ok)
            IN  /\ store' = r.store
                /\ ingest_log' = Append(ingest_log,
                       call_record(r, "ok", calls[c].head, calls[c].began, c))
                /\ calls' = [calls EXCEPT ![c] = NoCall]
    /\ UNCHANGED <<s3_prefix, page, pc, run, existing_files, files, idx, stats,
                   current_files, del_list, store0, item_log, del_listing,
                   del_log, result, prev_clean, listing_ok, impl, api_data, ext_vars>>

\* What the population keys may hold before the first call
IngestInitStores(prefix) ==
    UNION { [S -> {json_bytes(DocAB), json_bytes(DocAB3), BodyA}] :
            S \in SUBSET {PopulationFile, s3_key(prefix, PopulationFile)} }

Init ==
    /\ s3_prefix \in Prefixes
    /\ page \in Pages
    /\ store \in InitStores(s3_prefix)
    /\ pc = "idle"
    /\ run = 0
    /\ existing_files = EmptyMap
    /\ files = <<>>
    /\ idx = 1
    /\ stats = ZeroStats
    /\ current_files = {}
    /\ del_list = <<>>
    /\ store0 = store
    /\ item_log = <<>>
    /\ del_listing = {}
    /\ del_log = <<>>
    /\ result = NoResult
    /\ prev_clean = FALSE
    /\ listing_ok = FALSE
    /\ impl = "lambda"
    /\ api_data = "v2"
    /\ ingest_log = <<>>
    /\ calls = [c \in 1..MaxInFlight |-> NoCall]
    /\ fp = <<>>
    /\ an_store = EmptyMap
    /\ an_result = NoAnResult
    /\ hpc = "off"
    /\ h_env = NoEnv
    /\ h_result = NoHandlerResult
    /\ other_log = <<>>
    /\ stopped = NoStop

Next ==
    \/ SyncStart
    \/ FetchDirectory
    \/ ProcessItem
    \/ ListForDeletion
    \/ DeleteStep
    \/ SyncReturn

Spec == Init /\ [][Next]_vars

\* The Dataset Ingestor alone: repeated calls on unchanged upstream data
InitIngest ==
    /\ s3_prefix \in Prefixes
    /\ page = <<>>
    /\ store \in IngestInitStores(s3_prefix)
    /\ pc = "idle"
    /\ run = 0
    /\ existing_files = EmptyMap
    /\ files = <<>>
    /\ idx = 1
    /\ stats = ZeroStats
    /\ current_files = {}
    /\ del_list = <<>>
    /\ store0 = store
    /\ item_log = <<>>
    /\ del_listing = {}
    /\ del_log = <<>>
    /\ result = NoResult
    /\ prev_clean = FALSE
    /\ listing_ok = FALSE
    /\ impl \in {"lambda", "script"}
    /\ api_data \in {"v2", "v3", "nested"}
    /\ ingest_log = <<>>
    /\ calls = [c \in 1..MaxInFlight |-> NoCall]
    /\ fp = <<>>
    /\ an_store = EmptyMap
    /\ an_result = NoAnResult
    /\ hpc = "off"
    /\ h_env = NoEnv
    /\ h_result = NoHandlerResult
    /\ other_log = <<>>
    /\ stopped = NoStop

SpecIngest == InitIngest /\ [][IngestStart \/ IngestLookup \/ IngestPut]_vars


(************************* the fingerprint ********************************)
\* payloads fingerprinted in one behaviour
MaxFingerprints == 2

\* The payloads resp.json() may return: flat objects with the members a and
\* b, objects with one member, and objects that hold a flat object under n,
\* alone or next to a member a, with the members in any order at both depths
Payloads ==
    LET Leaves == {Num(1), Num(2)}
        FlatPairs ==
            { Obj(<< <<(<<"a">>), x>>, <<(<<"b">>), y>> >>) : x \in Leaves, y \in Leaves }
            \cup { Obj(<< <<(<<"b">>), y>>, <<(<<"a">>), x>> >>) :
                     x \in Leaves, y \in Leaves }
    IN  FlatPairs
        \cup { Obj(<< <<(<<"a">>), x>> >>) : x \in Leaves }
        \cup { Obj(<< <<(<<"n">>), f>> >>) : f \in FlatPairs }
        \cup { Obj(<< <<(<<"n">>), f>>, <<(<<"a">>), x>> >>) :
                 f \in FlatPairs, x \in Leaves }
        \cup { Obj(<< <<(<<"a">>), x>>, <<(<<"n">>), f>> >>) :
                 f \in FlatPairs, x \in Leaves }

\* new_hash = hashlib.md5(json_bytes).hexdigest()
new_hash(data) == Md5Hex(json_bytes(data))

\* The fingerprint computation of ingest_population_data on one payload
Fingerprint ==
    /\ Len(fp) < MaxFingerprints
    /\ \E data \in Payloads :
         fp' = Append(fp, [data |-> data, hash |-> new_hash(data)])
    /\ UNCHANGED <<sync_vars, ingest_vars, an_vars, handler_vars, shared_vars>>

InitFingerprint ==
    /\ s3_prefix = PrefixEmpty
    /\ page = <<>>
    /\ store = EmptyMap
    /\ pc = "idle"
    /\ run = 0
    /\ existing_files = EmptyMap
    /\ files = <<>>
    /\ idx = 1
    /\ stats = ZeroStats
    /\ current_files = {}
    /\ del_list = <<>>
    /\ store0 = store
    /\ item_log = <<>>
    /\ del_listing = {}
    /\ del_log = <<>>
    /\ result = NoResult
    /\ prev_clean = FALSE
    /\ listing_ok = FALSE
    /\ impl = "lambda"
    /\ api_data = "v2"
    /\ ingest_log = <<>>
    /\ calls = [c \in 1..MaxInFlight |-> NoCall]
    /\ fp = <<>>
    /\ an_store = EmptyMap
    /\ an_result = NoAnResult
    /\ hpc = "off"
    /\ h_env = NoEnv
    /\ h_result = NoHandlerResult
    /\ other_log = <<>>
    /\ stopped = NoStop

SpecFingerprint == InitFingerprint /\ [][Fingerprint]_vars


(************************* the analytics pipeline *************************)
\* Nullable numbers (a pandas column with NA): {} is null, {n} is the number n

\* s.endswith(suf)
EndsWith(s, suf) ==
    Len(suf) <= Len(s) /\ SubSeq(s, Len(s) - Len(suf) + 1, Len(s)) = suf

\* s.rstrip(ch)
RECURSIVE RStrip(_, _)
RStrip(s, ch) ==
    IF s # <<>> /\ s[Len(s)] = ch THEN RStrip(SubSeq(s, 1, Len(s) - 1), ch) ELSE s

\* s.strip() for strings whose only whitespace is the blank
Strip(s) == RStrip(LStrip(s, " "), " ")

\* key.lower() for the characters the model uses
Lower(s) ==
    LET LowerChar(c) ==
            CASE c = "A" -> "a" [] c = "D" -> "d" [] c = "E" -> "e" [] c = "I" -> "i"
              [] c = "J" -> "j" [] c = "L" -> "l" [] c = "N" -> "n" [] c = "O" -> "o"
              [] c = "P" -> "p" [] c = "Q" -> "q" [] c = "R" -> "r" [] c = "S" -> "s"
              [] c = "T" -> "t" [] c = "U" -> "u"
              [] OTHER -> c
    IN  [i \in 1..Len(s) |-> LowerChar(s[i])]

Digits == <<"0", "1", "2", "3", "4", "5", "6", "7", "8", "9">>

\* int(s) for a string of decimal digits
RECURSIVE DigitsValue(_)
DigitsValue(s) ==
    IF s = <<>> THEN 0
    ELSE DigitsValue(SubSeq(s, 1, Len(s) - 1)) * 10
         + (CHOOSE d \in 1..Len(Digits) : Digits[d] = s[Len(s)]) - 1

\* pd.to_numeric(cell, errors='coerce') of one cell: a cell of decimal digits
\* becomes its number; a missing cell (<<>>) or any other text becomes null
to_numeric(cell) ==
    IF cell # <<>> /\ \A i \in 1..Len(cell) : \E d \in 1..Len(Digits) : Digits[d] = cell[i]
    THEN {DigitsValue(cell)} ELSE {}

\* cell.astype(str).str.strip() of one cell: a missing cell reads 'nan'
clean_text(cell) == IF cell = <<>> THEN <<"n", "a", "n">> ELSE Strip(cell)

\* column names
ColSeriesId == <<"s", "e", "r", "i", "e", "s", "_", "i", "d">>
ColYear     == <<"y", "e", "a", "r">>
ColPeriod   == <<"p", "e", "r", "i", "o", "d">>
ColValue    == <<"v", "a", "l", "u", "e">>
ColPopulation == <<"p", "o", "p", "u", "l", "a", "t", "i", "o", "n">>
ColYearCap       == <<"Y", "e", "a", "r">>
ColPopulationCap == <<"P", "o", "p", "u", "l", "a", "t", "i", "o", "n">>

\* the marker of `'pr.data' in key`
DataMarker == <<"p", "r", ".", "d", "a", "t", "a">>

\* full_prefix = s3_prefix if s3_prefix.endswith('/') else f"{s3_prefix}/"
full_prefix(prefix) ==
    IF EndsWith(prefix, <<"/">>) THEN prefix ELSE prefix \o <<"/">>

\* The selection rule of load_bls_master for one listed key
is_bls_fragment(key) ==
    /\ ~(EndsWith(key, <<"/">>) \/ Contains(Lower(key), PopulationFile))
    /\ Contains(key, DataMarker)

\* A table: cols is the set of its column names, rows its rows in order. A
\* row of a time-series table is [series_id, year, period, value], of a
\* population table [year, population]; the field of a column the table does
\* not have is never read.
EmptyDf == [cols |-> {}, rows |-> <<>>]

HasCol(cols, c) == \E x \in cols : Strip(x) = c

\* pd.concat(dfs, ignore_index=True): the rows of the fragments in order, the
\* cells of a column a fragment does not have missing
RECURSIVE concat_rows(_)
concat_rows(dfs) ==
    IF dfs = <<>> THEN <<>>
    ELSE LET f == Head(dfs)
             pad(r) ==
                 [series_id |-> IF HasCol(f.cols, ColSeriesId) THEN r.series_id ELSE <<>>,
                  year      |-> IF HasCol(f.cols, ColYear) THEN r.year ELSE <<>>,
                  period    |-> IF HasCol(f.cols, ColPeriod) THEN r.period ELSE <<>>,
                  value     |-> IF HasCol(f.cols, ColValue) THEN r.value ELSE <<>>]
         IN  [i \in 1..Len(f.rows) |-> pad(f.rows[i])] \o concat_rows(Tail(dfs))

concat(dfs) ==
    LET cols == UNION {dfs[i].cols : i \in 1..Len(dfs)}
    IN  [cols |-> cols, rows |-> concat_rows(dfs)]

\* The cleaning phase of load_bls_master: column names stripped, series_id
\* and period stripped text, value and year numeric with unparsable cells null
clean_bls(df) ==
    LET cols == {Strip(c) : c \in df.cols}
        row(r) ==
            [series_id |-> IF ColSeriesId \in cols THEN clean_text(r.series_id) ELSE <<>>,
             year      |-> IF ColYear \in cols THEN to_numeric(r.year) ELSE {},
             period    |-> IF ColPeriod \in cols THEN clean_text(r.period) ELSE <<>>,
             value     |-> IF ColValue \in cols THEN to_numeric(r.value) ELSE {}]
    IN  [cols |-> cols, rows |-> [i \in 1..Len(df.rows) |-> row(df.rows[i])]]

\* Mutant: without fragments an empty table is returned
no_fragments_empty_table(prefix) ==
    [raised |-> FALSE, error |-> "", df |-> EmptyDf]

\* if not dfs: raise RuntimeError(...)
no_fragments(prefix) ==
    [raised |-> TRUE, error |-> "No BLS files found under prefix", df |-> EmptyDf]

\* The keys load_bls_master reads, in listing order
bls_keys(st, prefix) ==
    SelectSeq(ListObjects(st, full_prefix(prefix)), is_bls_fragment)

\* load_bls_master(bucket, prefix): the cleaned concatenation of the selected
\* fragments, or an exception. keys are the keys the listing gave and the
\* rule selected, dfs the fragments the get_object calls returned, one per
\* key; list_ok and get_ok tell whether the store answered the listing and
\* every get_object call.
load_bls_master(keys, dfs, prefix, list_ok, get_ok) ==
    IF ~list_ok
    THEN [raised |-> TRUE, error |-> "list_objects_v2 failed", df |-> EmptyDf]
    ELSE IF keys # <<>> /\ ~get_ok
    THEN [raised |-> TRUE, error |-> "get_object failed", df |-> EmptyDf]
    ELSE IF keys = <<>> THEN no_fragments(full_prefix(prefix))
    ELSE [raised |-> FALSE, error |-> "", df |-> clean_bls(concat(dfs))]

\* load_population_df(bucket): the table of the records under 'data' of the
\* object population_data.json of the bucket root, or an exception. A record
\* is [year, population] with the cells under the payload's field names.
load_population_df(st, get_ok) ==
    IF PopulationFile \notin DOMAIN st \/ ~get_ok
    THEN [raised |-> TRUE, error |-> "get_object failed", df |-> EmptyDf]
    ELSE LET payload == st[PopulationFile]
             records == IF payload.has_data THEN payload.data ELSE <<>>
             rename(c) == IF c = ColYearCap THEN ColYear
                          ELSE IF c = ColPopulationCap THEN ColPopulation ELSE c
             cols    == {rename(c) : c \in payload.fields}
             row(r)  ==
                 [year       |-> IF ColYear \in cols THEN to_numeric(r.year) ELSE {},
                  population |-> IF ColPopulation \in cols
                                 THEN to_numeric(r.population) ELSE {}]
         IN  IF records = <<>>
             THEN [raised |-> TRUE, error |-> "Population JSON has no 'data' records",
                   df |-> EmptyDf]
             ELSE [raised |-> FALSE, error |-> "",
                   df |-> [cols |-> cols,
                           rows |-> [i \in 1..Len(records) |-> row(records[i])]]]

(***************************** the reports ********************************)
\* Exact fractions stand for the floats of the reports: [num, den] in lowest
\* terms with den > 0; NaN is the float nan.
RECURSIVE Gcd(_, _)
Gcd(a, b) == IF b = 0 THEN a ELSE Gcd(b, a % b)

Frac(n, d) ==
    LET g == Gcd(IF n < 0 THEN -n ELSE n, d)
    IN  [num |-> n \div g, den |-> d \div g]

NaN == [num |-> 0, den |-> 0]

\* The non-null numbers of a sequence of nullable numbers, in order
RECURSIVE NonNull(_)
NonNull(xs) ==
    IF xs = <<>> THEN <<>>
    ELSE (IF Head(xs) = {} THEN <<>> ELSE <<CHOOSE n \in Head(xs) : TRUE>>)
         \o NonNull(Tail(xs))

RECURSIVE SumSeq(_)
SumSeq(ns) == IF ns = <<>> THEN 0 ELSE Head(ns) + SumSeq(Tail(ns))

\* Series.mean(): the mean of the non-null values, nan when there is none
mean(xs) ==
    LET ns == NonNull(xs)
    IN  IF ns = <<>> THEN NaN ELSE Frac(SumSeq(ns), Len(ns))

\* The square of Series.std() (sample standard deviation, ddof = 1) of the
\* non-null values: nan when there are fewer than two
std_squared(xs) ==
    LET ns == NonNull(xs)
        n  == Len(ns)
        sq == [i \in 1..n |-> ns[i] * ns[i]]
    IN  IF n < 2 THEN NaN
        ELSE Frac(n * SumSeq(sq) - SumSeq(ns) * SumSeq(ns), n * (n - 1))

\* sorted(S) for a set of integers
RECURSIVE SortNums(_)
SortNums(S) ==
    IF S = {} THEN <<>>
    ELSE LET m == CHOOSE x \in S : \A y \in S : x <= y
         IN  <<m>> \o SortNums(S \ {m})

\* the bounds of the year filter of Task A
YearFrom == 2013
YearTo == 2018

\* A report function raised the exception e
Raised(e) == [raised |-> TRUE, status |-> "", error |-> e]

\* Mutant: the upper bound of the year filter is exclusive
in_year_range_open(year) == \E y \in year : y >= YearFrom /\ y < YearTo

\* (df_pop['year'] >= 2013) & (df_pop['year'] <= 2018) for one row: a null
\* year compares as NA, which the row selection treats as False
in_year_range(year) == \E y \in year : y >= YearFrom /\ y <= YearTo

\* task_a_population_stats(df_pop); the field std_sq is the square of 'std'
task_a_population_stats(df_pop) ==
    IF ColYear \notin df_pop.cols THEN Raised("KeyError: 'year'")
    ELSE LET keep(r) == in_year_range(r.year)
             df_filtered == SelectSeq(df_pop.rows, keep)
             n   == Len(df_filtered)
             pop == [i \in 1..n |-> df_filtered[i].population]
         IN  IF n = 0
             THEN [raised |-> FALSE, status |-> "ERROR",
                   message |-> "No data found for years 2013-2018"]
             ELSE IF ColPopulation \notin df_pop.cols
             THEN Raised("KeyError: 'population'")
             ELSE [raised |-> FALSE, status |-> "SUCCESS",
                   mean |-> mean(pop), std_sq |-> std_squared(pop),
                   years |-> SortNums(UNION {df_filtered[i].year : i \in 1..n}),
                   row_count |-> n]

\* entries of the summary list of Task B
PreviewLen == 10

\* The keys of df.groupby(['series_id', 'year']): the (series_id, year) pairs
\* of the rows, rows with a null year left out (dropna), in ascending order
RECURSIVE SortGroups(_)
SortGroups(S) ==
    IF S = {} THEN <<>>
    ELSE LET m == CHOOSE x \in S : \A y \in S \ {x} :
                      \/ StrLess(x[1], y[1])
                      \/ x[1] = y[1] /\ x[2] < y[2]
         IN  <<m>> \o SortGroups(S \ {m})

\* ['value'].sum() of one group: the sum of its non-null values
group_sum(rows, g) ==
    LET in_group(r) == r.series_id = g[1] /\ r.year = {g[2]}
        members == SelectSeq(rows, in_group)
    IN  SumSeq(NonNull([i \in 1..Len(members) |-> members[i].value]))

\* df_annual: one row per (series_id, year) with the summed value
df_annual(rows) ==
    LET keys == SortGroups(UNION { {<<rows[i].series_id, y>> : y \in rows[i].year} :
                                   i \in 1..Len(rows) })
    IN  [i \in 1..Len(keys) |->
            [series_id |-> keys[i][1], year |-> keys[i][2],
             value |-> group_sum(rows, keys[i])]]

\* sort_values('value', ascending=False): the sort is the default quicksort,
\* which is not stable, so rows of equal value may come out in any order. The
\* set of the tables the call may return: every arrangement of the rows in
\* which value never increases.
sort_by_value_desc(rows) ==
    LET RECURSIVE arrange(_)
        arrange(I) ==
            IF I = {} THEN {<<>>}
            ELSE UNION { { <<rows[m]>> \o rest : rest \in arrange(I \ {m}) } :
                         m \in {i \in I : \A j \in I : rows[j].value <= rows[i].value} }
    IN  arrange(1..Len(rows))

\* drop_duplicates(subset=['series_id'], keep='first')
RECURSIVE drop_duplicates(_, _)
drop_duplicates(rows, seen) ==
    IF rows = <<>> THEN <<>>
    ELSE IF Head(rows).series_id \in seen THEN drop_duplicates(Tail(rows), seen)
    ELSE <<Head(rows)>> \o drop_duplicates(Tail(rows), seen \cup {Head(rows).series_id})

\* The tables df_annual_sorted may be in task_b_best_year_report(df_bls)
annual_sorted(df_bls) ==
    IF {ColSeriesId, ColYear, ColValue} \subseteq df_bls.cols
    THEN sort_by_value_desc(df_annual(df_bls.rows)) ELSE {<<>>}

\* task_b_best_year_report(df_bls); df_annual_sorted is the table the sort
\* returned, one of annual_sorted(df_bls)
task_b_best_year_report(df_bls, df_annual_sorted) ==
    LET missing_cols == {ColSeriesId, ColYear, ColValue} \ df_bls.cols
        df_best_years ==
            drop_duplicates(df_annual_sorted, {})
    IN  IF missing_cols # {}
        THEN [raised |-> FALSE, status |-> "ERROR",
              message |-> "Missing required columns"]
        ELSE [raised |-> FALSE, status |-> "SUCCESS",
              total_series |-> Len(df_best_years),
              results |-> SubSeq(df_best_years, 1,
                                 IF Len(df_best_years) < PreviewLen
                                 THEN Len(df_best_years) ELSE PreviewLen),
              total_results |-> Len(df_best_years)]

\* the default series_id and period of Task C
DefaultSeries == <<"P", "R", "S", "3", "0", "0", "0", "6", "0", "3", "2">>
DefaultPeriod == <<"Q", "0", "1">>

\* df_bls.merge(df_pop[['year', 'population']], on='year', how='left'): each
\* time-series row once per population row of the same year (null years
\* match each other), or once with a null population when there is none
RECURSIVE merge_left(_, _)
merge_left(bls_rows, pop_rows) ==
    IF bls_rows = <<>> THEN <<>>
    ELSE LET r == Head(bls_rows)
             same_year(q) == q.year = r.year
             matches == SelectSeq(pop_rows, same_year)
             joined(pop) ==
                 [series_id |-> r.series_id, year |-> r.year, period |-> r.period,
                  value |-> r.value, population |-> pop]
         IN  (IF matches = <<>> THEN <<joined({})>>
              ELSE [i \in 1..Len(matches) |-> joined(matches[i].population)])
             \o merge_left(Tail(bls_rows), pop_rows)

\* task_c_unified_report(df_bls, df_pop) with the default series and period
task_c_unified_report(df_bls, df_pop) ==
    IF ~({ColYear, ColPopulation} \subseteq df_pop.cols)
    THEN Raised("KeyError: not in index")
    ELSE IF ColYear \notin df_bls.cols THEN Raised("KeyError: 'year'")
    ELSE IF ColSeriesId \notin df_bls.cols THEN Raised("KeyError: 'series_id'")
    ELSE IF ColPeriod \notin df_bls.cols THEN Raised("KeyError: 'period'")
    ELSE LET df_merged == merge_left(df_bls.rows, df_pop.rows)
             keep(r) == r.series_id = DefaultSeries /\ r.period = DefaultPeriod
             df_filtered == SelectSeq(df_merged, keep)
         IN  IF Len(df_filtered) = 0
             THEN [raised |-> FALSE, status |-> "ERROR",
                   message |-> "No data found for series_id, period"]
             ELSE IF ColValue \notin df_bls.cols
             THEN [raised |-> FALSE, status |-> "ERROR", message |-> "Missing columns"]
             ELSE [raised |-> FALSE, status |-> "SUCCESS",
                   row_count |-> Len(df_filtered), results |-> df_filtered]

(************************* analytics lambda_handler ***********************)
\* results['task_x'] = None
NoReport == [raised |-> FALSE, status |-> "None"]

\* except Exception as e: results['task_x'] = {'status': 'ERROR', 'error': str(e)}
report_entry(r) ==
    IF r.raised THEN [raised |-> FALSE, status |-> "ERROR", error |-> r.error] ELSE r

\* Mutant: the three reports share one failure boundary
run_reports_one_boundary(df_bls, df_pop, df_annual_sorted) ==
    LET a == task_a_population_stats(df_pop)
        b == task_b_best_year_report(df_bls, df_annual_sorted)
        c == task_c_unified_report(df_bls, df_pop)
    IN  [task_a |-> IF a.raised THEN NoReport ELSE a,
         task_b |-> IF a.raised \/ b.raised THEN NoReport ELSE b,
         task_c |-> IF a.raised \/ b.raised \/ c.raised THEN NoReport ELSE c,
         raised |-> a.raised \/ b.raised \/ c.raised,
         error  |-> IF a.raised THEN a.error ELSE IF b.raised THEN b.error
                    ELSE IF c.raised THEN c.error ELSE ""]

\* The three reports, each under its own try/except; raised tells whether an
\* exception left the block (none can)
run_reports(df_bls, df_pop, df_annual_sorted) ==
    [task_a |-> report_entry(task_a_population_stats(df_pop)),
     task_b |-> report_entry(task_b_best_year_report(df_bls, df_annual_sorted)),
     task_c |-> report_entry(task_c_unified_report(df_bls, df_pop)),
     raised |-> FALSE,
     error  |-> ""]

\* Mutant: one successful report is enough
overall_success_any(task_a, task_b, task_c) ==
    \E task \in {task_a, task_b, task_c} \ {NoReport} : task.status = "SUCCESS"

\* all(task.get('status') == 'SUCCESS' for task in [...] if task)
overall_success(task_a, task_b, task_c) ==
    \A task \in {task_a, task_b, task_c} \ {NoReport} : task.status = "SUCCESS"

\* The handler's return value for the results it has gathered; keys is the
\* set of keys of the body
response(results) ==
    [kind |-> "response", statusCode |-> IF results.success THEN 200 ELSE 500,
     body |-> results]

\* The return value of lambda_handler(event, context) of the analytics
\* function. configured: S3_BUCKET_NAME is set; bls, pop: what
\* load_bls_master and load_population_df returned or raised (pop is not
\* called when bls raised); df_annual_sorted: the table the sort of Task B
\* returned.
analytics_handler(configured, bls, pop, df_annual_sorted) ==
    LET results == [keys |-> {"timestamp", "task_a", "task_b", "task_c", "success"},
                    task_a |-> NoReport, task_b |-> NoReport, task_c |-> NoReport,
                    success |-> FALSE, error |-> ""]
        failed(e) == response([results EXCEPT !.keys = @ \cup {"error"}, !.error = e])
        reports == run_reports(bls.df, pop.df, df_annual_sorted)
    IN  IF ~configured
        THEN [kind |-> "response", statusCode |-> 500,
              body |-> [results EXCEPT !.keys = {"error"},
                                       !.error = "S3_BUCKET_NAME not configured"]]
        ELSE IF bls.raised THEN failed(bls.error)
        ELSE IF pop.raised THEN failed(pop.error)
        ELSE IF reports.raised
        THEN response([results EXCEPT
                 !.task_a = reports.task_a, !.task_b = reports.task_b,
                 !.task_c = reports.task_c,
                 !.keys = @ \cup {"error"}, !.error = reports.error])
        ELSE response([results EXCEPT
                 !.task_a = reports.task_a, !.task_b = reports.task_b,
                 !.task_c = reports.task_c,
                 !.success = overall_success(reports.task_a, reports.task_b,
                                             reports.task_c)])

(************************* ingestion lambda_handler ***********************)
\* What a stage call did: it returned (status "STATS" for the stats of the
\* sync, the status of the result for the ingestor) or raised ("RAISED")
sync_outcome(res) ==
    IF res.kind = "raised" THEN [status |-> "RAISED", stats |-> ZeroStats]
    ELSE [status |-> "STATS", stats |-> res.stats]

\* Mutant: the stage is called outside a try block
stage_entry_uncaught(outcome) == outcome

\* try: results[stage] = stage(...)
\* except Exception as e: results[stage] = {'status': 'ERROR', 'error': str(e)}
stage_entry(outcome) ==
    IF outcome.status = "RAISED" THEN [outcome EXCEPT !.status = "ERROR"]
    ELSE outcome

\* {'status': 'SKIPPED', 'message': '... not configured'}
StageSkipped == [status |-> "SKIPPED", stats |-> ZeroStats]

\* results['success'] and the return value of the ingestion lambda_handler;
\* an exception that no except clause caught leaves the handler
ingestion_response(bls_sync, population_ingest) ==
    IF bls_sync.status = "RAISED" \/ population_ingest.status = "RAISED"
    THEN [kind |-> "unhandled"]
    ELSE [kind |-> "response", statusCode |-> 200,
          body |-> [keys |-> {"timestamp", "bls_sync", "population_ingest", "success"},
                    bls_sync |-> bls_sync,
                    population_ingest |-> population_ingest,
                    success |-> population_ingest.status \in {"UPDATED", "SKIPPED"}]]

\* The handler reads its environment: without S3_BUCKET_NAME it returns at
\* once; with BLS_BASE_URL it calls sync_bls_to_s3, else it skips the sync
HandlerStart ==
    /\ hpc = "start"
    /\ \E configured \in BOOLEAN, bls \in BOOLEAN, pop \in BOOLEAN :
         /\ h_env' = [configured |-> configured, bls_url |-> bls,
                      population_api_url |-> pop]
         /\ IF ~configured
            THEN /\ hpc' = "done"
                 /\ h_result' = [kind |-> "response", statusCode |-> 500,
                                 body |-> [keys |-> {"error"},
                                           bls_sync |-> StageSkipped,
                                           population_ingest |-> StageSkipped,
                                           success |-> FALSE]]
            ELSE /\ hpc' = IF bls THEN "sync" ELSE "ingest"
                 /\ h_result' = h_result
    /\ UNCHANGED <<sync_vars, ingest_vars, fp, an_vars, shared_vars>>

\* The sync stage of the handler is over: it returned, raised or was skipped
sync_stage_over(at, sync_pc, runs) ==
    at = "ingest" \/ (at = "sync" /\ sync_pc = "idle" /\ runs > 0)

\* Lines 222-241: the population stage is over (the handler's call of
\* ingest_population_data returned or raised, or the stage was skipped):
\* results['success'] and the return
HandlerFinish ==
    /\ sync_stage_over(hpc, pc, run)
    /\ h_env.population_api_url => \E i \in 1..Len(ingest_log) : ingest_log[i].slot = 1
    /\ LET bls_sync == IF hpc = "ingest" THEN StageSkipped
                       ELSE stage_entry(sync_outcome(result))
           r == ingest_log[CHOOSE i \in 1..Len(ingest_log) : ingest_log[i].slot = 1]
       IN  h_result' =
             IF h_env.population_api_url
             THEN ingestion_response(bls_sync,
                      stage_entry([status |-> r.status, stats |-> ZeroStats]))
             ELSE ingestion_response(bls_sync, StageSkipped)
    /\ hpc' = "done"
    /\ UNCHANGED <<sync_vars, ingest_vars, h_env, fp, an_vars, shared_vars>>

(*************************** analytics inputs *****************************)
\* rows of a time-series fragment, rows of a population payload
MaxRows == 3
\* objects of the bucket when its layout is explored
MaxAnObjs == 3

\* The rows read_csv may yield, cells as text (<<>>: a missing cell)
BlsRows == <<
    [series_id |-> <<"S", "1">>, year |-> <<"2", "0", "2", "0">>, period |-> <<"Q", "0", "1">>, value |-> <<"1", "0", "0">>],
    [series_id |-> <<"S", "1", " ">>, year |-> <<"2", "0", "2", "1">>, period |-> <<"Q", "0", "1">>, value |-> <<"5", "0">>],
    [series_id |-> <<"S", "2">>, year |-> <<"2", "0", "2", "0">>, period |-> <<"Q", "0", "1">>, value |-> <<"1", "0">>],
    [series_id |-> <<"S", "1">>, year |-> <<"2", "0", "2", "1">>, period |-> <<"Q", "0", "2">>, value |-> <<"6", "0">>],
    [series_id |-> <<"P", "R", "S", "3", "0", "0", "0", "6", "0", "3", "2">>, year |-> <<"2", "0", "2", "0">>, period |-> <<"Q", "0", "1">>, value |-> <<"5", "0">>],
    [series_id |-> <<"P", "R", "S", "3", "0", "0", "0", "6", "0", "3", "2">>, year |-> <<"2", "0", "2", "1">>, period |-> <<"Q", "0", "1">>, value |-> <<>>],
    [series_id |-> <<"P", "R", "S", "3", "0", "0", "0", "6", "0", "3", "2">>, year |-> <<"x">>, period |-> <<"Q", "0", "1">>, value |-> <<"1", "0">>],
    [series_id |-> <<"P", "R", "S", "3", "0", "0", "0", "6", "0", "3", "2">>, year |-> <<"2", "0", "2", "0">>, period |-> <<"Q", "0", "2">>, value |-> <<"1", "0", "0">>],
    [series_id |-> <<"S", "2">>, year |-> <<"x">>, period |-> <<"Q", "0", "1">>, value |-> <<"1", "0">>] >>

\* The records of the 'data' list of the population payload
PopRows == <<
    [year |-> <<"2", "0", "1", "3">>, population |-> <<"3", "0", "0">>],
    [year |-> <<"2", "0", "1", "4">>, population |-> <<"3", "0", "5">>],
    [year |-> <<"2", "0", "1", "5">>, population |-> <<"3", "1", "0">>],
    [year |-> <<"2", "0", "1", "2">>, population |-> <<"1", "0", "0">>],
    [year |-> <<"2", "0", "1", "8">>, population |-> <<"4", "0", "0">>],
    [year |-> <<"2", "0", "1", "9">>, population |-> <<"5", "0", "0">>],
    [year |-> <<"2", "0", "2", "0">>, population |-> <<"9", "0", "0">>],
    [year |-> <<"2", "0", "2", "0">>, population |-> <<"9", "0", "1">>],
    [year |-> <<"x">>, population |-> <<"7">>],
    [year |-> <<"2", "0", "1", "3">>, population |-> <<>>] >>

\* The sequences of at most n elements of the sequence xs
RECURSIVE SeqsUpTo(_, _)
SeqsUpTo(xs, n) ==
    IF n = 0 THEN {<<>>}
    ELSE LET shorter == SeqsUpTo(xs, n - 1)
         IN  shorter \cup {Append(t, xs[i]) : t \in shorter, i \in 1..Len(xs)}

BlsCols == {ColSeriesId, ColYear, ColPeriod, ColValue}

Fragment(cols, rows) == [kind |-> "csv", cols |-> cols, rows |-> rows]

Payload(has_data, fields, data) ==
    [kind |-> "json", has_data |-> has_data, fields |-> fields, data |-> data]

PopFields == {ColYearCap, ColPopulationCap}

\* S1 {2020: 100, 2021: 50}, S2 {2020: 10}
ExampleFragment == Fragment(BlsCols, <<BlsRows[1], BlsRows[2], BlsRows[3]>>)
\* {2013: 300, 2014: 305, 2015: 310}
ExamplePayload == Payload(TRUE, PopFields, <<PopRows[1], PopRows[2], PopRows[3]>>)

\* A fragment with one series more than the summary list of Task B holds:
\* T01 and T02 of value 102, T03 .. T11 of values 103 .. 111
WideFragment ==
    Fragment(BlsCols,
        [i \in 1..(PreviewLen + 1) |->
            [series_id |-> <<"T", Digits[(i \div 10) + 1], Digits[(i % 10) + 1]>>,
             year |-> BlsRows[1].year, period |-> BlsRows[1].period,
             value |-> IF i = 1 THEN <<"1", "0", "2">>
                       ELSE <<"1", Digits[(i \div 10) + 1], Digits[(i % 10) + 1]>>]])

KeyBlsData  == PrefixBls \o DataMarker
KeyBlsData1 == PrefixBls \o DataMarker \o <<".", "1">>

\* The keys of the bucket when its layout is explored: time-series files at
\* the root, under "/", "bls/", "data" and "data/", a directory key, a file
\* that is no time-series file, the population object, and a time-series
\* file with the population object's name in its key
AnKeys ==
    {DataMarker, <<"/">> \o DataMarker, KeyBlsData, KeyBlsData1, KeyBlsTxt,
     PrefixBls \o DataMarker \o <<"/">>, KeyDataData,
     PrefixData \o <<"/">> \o DataMarker,
     PrefixBls \o <<"P", "O", "P", "U", "L", "A", "T", "I", "O", "N", "_", "D", "A", "T", "A", ".", "J", "S", "O", "N", ".">> \o DataMarker,
     PopulationFile}

\* The bucket with the objects of the keys K: the population payload under
\* population_data.json, a fragment under every other key
LayoutStore(K, fragment, payload) ==
    [k \in K |-> IF k = PopulationFile THEN payload
                 ELSE IF k = KeyBlsData1
                      THEN Fragment(BlsCols, <<BlsRows[4]>>) ELSE fragment]

\* The (prefix, bucket) pairs an invocation may find: every layout of at most
\* MaxAnObjs objects under every prefix; and under the prefix bls/ one fragment
\* and the payload, with every fragment within the bounds next to a few
\* payloads, every payload within the bounds next to a few fragments, and
\* fragments that differ in their header (a column missing, a padded name,
\* one series with the same sum in two years, more series than the summary
\* list holds) next to payloads that differ in their shape (no 'data', no
\* records, other field names)
AnInputs ==
    LET HeaderFragments ==
            { Fragment(BlsCols \ {c}, ExampleFragment.rows) : c \in BlsCols }
            \cup { Fragment((BlsCols \ {ColValue}) \cup {ColValue \o <<" ">>},
                            ExampleFragment.rows),
                   Fragment(BlsCols,
                            <<BlsRows[1], [BlsRows[1] EXCEPT !.year = BlsRows[2].year]>>),
                   WideFragment, ExampleFragment }
        ShapePayloads ==
            { Payload(FALSE, PopFields, <<>>), Payload(TRUE, PopFields, <<>>),
              Payload(TRUE, {ColYear, ColPopulation}, ExamplePayload.data),
              Payload(TRUE, {ColPopulationCap}, ExamplePayload.data),
              Payload(TRUE, {ColYearCap}, ExamplePayload.data),
              ExamplePayload }
        SmallFragments ==
            { Fragment(BlsCols, rows) :
                rows \in { <<BlsRows[5]>>, <<BlsRows[5], BlsRows[7]>>,
                           <<BlsRows[7], BlsRows[6], BlsRows[1]>> } }
        SmallPayloads ==
            { Payload(TRUE, PopFields, data) :
                data \in { <<PopRows[1]>>, <<PopRows[7], PopRows[8]>>,
                           <<PopRows[9], PopRows[7]>> } }
        AllFragments ==
            { Fragment(BlsCols, rows) : rows \in SeqsUpTo(BlsRows, MaxRows) }
        AllPayloads ==
            { Payload(TRUE, PopFields, data) : data \in SeqsUpTo(PopRows, MaxRows) }
        Contents ==
            (AllFragments \X SmallPayloads) \cup (SmallFragments \X AllPayloads)
            \cup (HeaderFragments \X ShapePayloads)
    IN  { <<prefix, LayoutStore(K, ExampleFragment, ExamplePayload)>> :
            prefix \in Prefixes,
            K \in {T \in SUBSET AnKeys : Cardinality(T) <= MaxAnObjs} }
        \cup { <<PrefixBls, LayoutStore({KeyBlsData, PopulationFile}, c[1], c[2])>> :
                 c \in Contents }

\* The invocation has ended: its inputs, the tables it loaded and its return
\* value. listed is the bucket as the listing saw it; pop is
\* [raised |-> TRUE, error |-> "", df |-> EmptyDf] when load_population_df
\* was not called.
an_return(configured, list_ok, get_ok, bls, pop, df_annual_sorted, listed) ==
    LET loaded == configured /\ ~bls.raised /\ ~pop.raised
    IN  [done |-> TRUE, at |-> "done", configured |-> configured,
         list_ok |-> list_ok, get_ok |-> get_ok, loaded |-> loaded,
         listed |-> listed,
         df_bls |-> IF loaded THEN bls.df ELSE EmptyDf,
         df_pop |-> IF loaded THEN pop.df ELSE EmptyDf,
         response |-> analytics_handler(configured, bls, pop, df_annual_sorted)]

\* lambda_handler lines 207-232 and load_bls_master lines 26-39, 44-45: the
\* handler reads its environment and load_bls_master lists the bucket
\* (list_objects_v2) and selects the fragment keys. Without S3_BUCKET_NAME,
\* when the listing fails or when no key is selected the invocation ends;
\* otherwise it goes on to read the selected objects.
AnalyticsStart ==
    /\ an_result = NoAnResult
    /\ \E configured \in BOOLEAN, list_ok \in BOOLEAN :
         LET keys == bls_keys(an_store, s3_prefix)
         IN  an_result' =
               IF configured /\ list_ok /\ keys # <<>>
               THEN [done |-> FALSE, at |-> "fragments", listed |-> an_store,
                     selected |-> keys, keys |-> keys, dfs |-> <<>>]
               ELSE an_return(configured, list_ok, TRUE,
                              load_bls_master(keys, <<>>, s3_prefix, list_ok, TRUE),
                              [raised |-> TRUE, error |-> "", df |-> EmptyDf], <<>>, an_store)
    /\ UNCHANGED <<sync_vars, ingest_vars, fp, an_store, handler_vars, shared_vars>>

\* load_bls_master lines 40-43: get_object and read_csv of the next selected
\* key; when the call raises (the store fails, or the object is no longer
\* there) the invocation ends
AnalyticsReadFragment ==
    /\ an_result.at = "fragments"
    /\ an_result.keys # <<>>
    /\ \E get_ok \in BOOLEAN :
         LET key == Head(an_result.keys)
         IN  an_result' =
               IF get_ok /\ key \in DOMAIN an_store
               THEN [an_result EXCEPT !.keys = Tail(@),
                                      !.dfs = Append(@, an_store[key])]
               ELSE an_return(TRUE, TRUE, FALSE,
                              load_bls_master(an_result.selected, an_result.dfs,
                                              s3_prefix, TRUE, FALSE),
                              [raised |-> TRUE, error |-> "", df |-> EmptyDf], <<>>, an_result.listed)
    /\ UNCHANGED <<sync_vars, ingest_vars, fp, an_store, handler_vars, shared_vars>>

\* load_bls_master lines 47-66, load_population_df (get_object of
\* population_data.json, line 77) and lambda_handler lines 234-284: the
\* fragments are concatenated and cleaned, the population object is read, the
\* three reports are run and the handler returns
AnalyticsReadPopulation ==
    /\ an_result.at = "fragments"
    /\ an_result.keys = <<>>
    /\ \E get_ok \in BOOLEAN :
         LET bls == load_bls_master(an_result.selected, an_result.dfs,
                                    s3_prefix, TRUE, TRUE)
             pop == load_population_df(an_store, get_ok)
         IN  \E df_annual_sorted \in
                   (IF pop.raised THEN {<<>>} ELSE annual_sorted(bls.df)) :
               an_result' = an_return(TRUE, TRUE, get_ok, bls, pop,
                                      df_annual_sorted, an_result.listed)
    /\ UNCHANGED <<sync_vars, ingest_vars, fp, an_store, handler_vars, shared_vars>>

\* The ingestion function writes the bucket while the analytics function is
\* between two of its store calls (an object it creates is what triggers the
\* analytics function): the sync puts or deletes a time-series file
\* (ingestion_handler.py lines 88 and 109), the ingestor puts the population
\* object (line 161)
IngestionWrite ==
    /\ an_result.at = "fragments"
    /\ Len(other_log) < MaxOtherWrites
    /\ \E op \in {"put", "delete"}, key \in {KeyBlsData, KeyBlsData1, PopulationFile},
          body \in {ExampleFragment, Fragment(BlsCols, <<BlsRows[5]>>),
                    ExamplePayload, Payload(TRUE, PopFields, <<PopRows[1]>>)} :
         /\ op = "delete" => key \in DOMAIN an_store /\ body = ExampleFragment
         /\ op = "put" => (body.kind = "json" <=> key = PopulationFile)
         /\ an_store' = IF op = "put" THEN PutObject(an_store, key, body)
                        ELSE DeleteObject(an_store, key)
         /\ other_log' = Append(other_log,
                [op |-> op, key |-> key, body |-> body, idx |-> idx])
    /\ UNCHANGED <<sync_vars, ingest_vars, fp, an_result, handler_vars, stopped>>

InitAnalytics ==
    /\ \E input \in AnInputs : s3_prefix = input[1] /\ an_store = input[2]
    /\ page = <<>>
    /\ store = EmptyMap
    /\ pc = "idle"
    /\ run = 0
    /\ existing_files = EmptyMap
    /\ files = <<>>
    /\ idx = 1
    /\ stats = ZeroStats
    /\ current_files = {}
    /\ del_list = <<>>
    /\ store0 = store
    /\ item_log = <<>>
    /\ del_listing = {}
    /\ del_log = <<>>
    /\ result = NoResult
    /\ prev_clean = FALSE
    /\ listing_ok = FALSE
    /\ impl = "lambda"
    /\ api_data = "v2"
    /\ ingest_log = <<>>
    /\ calls = [c \in 1..MaxInFlight |-> NoCall]
    /\ fp = <<>>
    /\ an_result = NoAnResult
    /\ hpc = "off"
    /\ h_env = NoEnv
    /\ h_result = NoHandlerResult
    /\ other_log = <<>>
    /\ stopped = NoStop

\* One invocation of the analytics function next to the ingestion function
SpecAnalytics ==
    InitAnalytics /\ [][AnalyticsStart \/ AnalyticsReadFragment
                           \/ AnalyticsReadPopulation \/ IngestionWrite]_vars

(************************* the two entry points ***************************)
\* An invocation of the ingestion lambda_handler is about to start
InitHandler ==
    /\ s3_prefix \in Prefixes
    /\ page \in Pages
    /\ store \in InitStores(s3_prefix)
    /\ pc = "idle"
    /\ run = 0
    /\ existing_files = EmptyMap
    /\ files = <<>>
    /\ idx = 1
    /\ stats = ZeroStats
    /\ current_files = {}
    /\ del_list = <<>>
    /\ store0 = store
    /\ item_log = <<>>
    /\ del_listing = {}
    /\ del_log = <<>>
    /\ result = NoResult
    /\ prev_clean = FALSE
    /\ listing_ok = FALSE
    /\ impl = "lambda"
    /\ api_data = "v2"
    /\ ingest_log = <<>>
    /\ calls = [c \in 1..MaxInFlight |-> NoCall]
    /\ fp = <<>>
    /\ an_store = EmptyMap
    /\ an_result = NoAnResult
    /\ hpc = "start"
    /\ h_env = NoEnv
    /\ h_result = NoHandlerResult
    /\ other_log = <<>>
    /\ stopped = NoStop

NextEntryPoints ==
    \/ HandlerStart
    \/ hpc = "sync" /\ run = 0 /\ SyncStart
    \/ hpc = "sync" /\ FetchDirectory
    \/ hpc = "sync" /\ ProcessItem
    \/ hpc = "sync" /\ ListForDeletion
    \/ hpc = "sync" /\ DeleteStep
    \/ hpc = "sync" /\ SyncReturn
    \/ /\ sync_stage_over(hpc, pc, run) /\ h_env.population_api_url
       /\ calls[1] = NoCall /\ ingest_log = <<>>
       /\ IngestStart
    \/ /\ sync_stage_over(hpc, pc, run) /\ calls[1] # NoCall
       /\ \A i \in 1..Len(ingest_log) : ingest_log[i].slot # 2
       /\ IngestStart
    \/ sync_stage_over(hpc, pc, run) /\ IngestLookup
    \/ sync_stage_over(hpc, pc, run) /\ IngestPut
    \/ HandlerFinish
    \/ hpc = "off" /\ AnalyticsStart
    \/ hpc = "off" /\ AnalyticsReadFragment
    \/ hpc = "off" /\ AnalyticsReadPopulation
    \/ hpc = "off" /\ IngestionWrite

\* A behaviour is one invocation of one of the two Lambda functions
SpecEntryPoints == (InitHandler \/ InitAnalytics) /\ [][NextEntryPoints]_vars


(******************* a run next to another process ************************)

\* Another process of the repository (the part1 script, run next to the Lambda
\* function against the same bucket and prefix) writes or deletes one object
\* while the run is between two of its steps: it puts an object at prefix +
\* basename of a link (line 100) or at a key stored before, or deletes an
\* object it listed under the prefix (line 121)
OtherProcessWrite ==
    /\ pc # "idle"
    /\ Len(other_log) < MaxOtherWrites
    /\ \E key \in InitKeys(s3_prefix)
                  \cup {s3_key(s3_prefix, basename(AllHrefs[h])) :
                          h \in {l \in 1..Len(AllHrefs) : IsFileLink(AllHrefs[l])}},
          op \in {"put", "delete"}, body \in InitBodies :
         /\ op = "delete" => key \in DOMAIN store /\ body = BodyA
         /\ store' = IF op = "put" THEN PutObject(store, key, body)
                     ELSE DeleteObject(store, key)
         /\ other_log' = Append(other_log,
                [op |-> op, key |-> key, body |-> body, idx |-> idx])
    /\ UNCHANGED <<s3_prefix, page, pc, run, existing_files, files, idx, stats,
                   current_files, del_list, store0, item_log, del_listing,
                   del_log, result, prev_clean, listing_ok, ingest_vars,
                   fp, an_vars, handler_vars, stopped>>

\* One sync run with the other process writing between its steps
NextConcurrent ==
    \/ run = 0 /\ SyncStart
    \/ FetchDirectory
    \/ ProcessItem
    \/ ListForDeletion
    \/ DeleteStep
    \/ SyncReturn
    \/ OtherProcessWrite

SpecConcurrent == Init /\ [][NextConcurrent]_vars


(************************* a run that is stopped ***************************)
\* The store a call of sync_bls_to_s3 leaves when nothing fails: lines 46-112
\* with every GET, put_object, list_objects_v2 and delete_object succeeding
sync_bls_to_s3(st, prefix, pg) ==
    LET existing == get_existing_files(st, prefix)
        fs       == discover(pg)
        RECURSIVE upload(_, _)
        upload(i, cur) ==
            IF i > Len(fs) THEN cur
            ELSE LET bname   == basename(fs[i].name)
                     content == RemoteContent(fs[i].url)
                 IN  upload(i + 1,
                            IF file_needs_upload(bname, content, existing)
                            THEN PutObject(cur, s3_key(prefix, bname), content)
                            ELSE cur)
        uploaded == upload(1, st)
        current  == {basename(fs[i].name) : i \in 1..Len(fs)}
        listed   == deletion_listing(uploaded, st, prefix)
        stale    == {listed[i] : i \in {j \in 1..Len(listed) :
                                          IsStale(listed[j], prefix, current)}}
    IN  [k \in DOMAIN uploaded \ stale |-> uploaded[k]]

\* The function is stopped between two of its steps (the Lambda function's
\* timeout ends the invocation): nothing is returned, the store stays as the
\* steps made so far left it
Stop ==
    /\ pc # "idle"
    /\ ~stopped.happened
    /\ stopped' = [happened |-> TRUE, store0 |-> store0, pc |-> pc,
                   stats |-> stats]
    /\ result' = [kind |-> "stopped", stats |-> stats]
    /\ pc' = "idle"
    /\ run' = run + 1
    /\ UNCHANGED <<s3_prefix, page, store, existing_files, files, idx, stats,
                   current_files, del_list, store0, item_log, del_listing,
                   del_log, prev_clean, listing_ok, ingest_vars,
                   fp, an_vars, handler_vars, other_log>>

\* Sync runs of which the first may be stopped
NextInterrupt ==
    \/ SyncStart
    \/ FetchDirectory
    \/ ProcessItem
    \/ ListForDeletion
    \/ DeleteStep
    \/ SyncReturn
    \/ run = 0 /\ Stop

SpecInterrupt == Init /\ [][NextInterrupt]_vars


(********************** the ingestion pipeline, repeated ******************)
\* A new, empty bucket before the first pipeline run, with either
\* implementation of the Dataset Ingestor deployed
InitPipeline ==
    /\ s3_prefix \in Prefixes
    /\ page \in Pages
    /\ store = EmptyMap
    /\ pc = "idle"
    /\ run = 0
    /\ existing_files = EmptyMap
    /\ files = <<>>
    /\ idx = 1
    /\ stats = ZeroStats
    /\ current_files = {}
    /\ del_list = <<>>
    /\ store0 = store
    /\ item_log = <<>>
    /\ del_listing = {}
    /\ del_log = <<>>
    /\ result = NoResult
    /\ prev_clean = FALSE
    /\ listing_ok = FALSE
    /\ impl \in {"lambda", "script"}
    /\ api_data = "v2"
    /\ ingest_log = <<>>
    /\ calls = [c \in 1..MaxInFlight |-> NoCall]
    /\ fp = <<>>
    /\ an_store = EmptyMap
    /\ an_result = NoAnResult
    /\ hpc = "off"
    /\ h_env = NoEnv
    /\ h_result = NoHandlerResult
    /\ other_log = <<>>
    /\ stopped = NoStop

\* Pipeline runs on one bucket: each is a sync run followed by one call of
\* ingest_population_data
NextPipeline ==
    \/ run = Len(ingest_log) /\ SyncStart
    \/ FetchDirectory
    \/ ProcessItem
    \/ ListForDeletion
    \/ DeleteStep
    \/ SyncReturn
    \/ run = Len(ingest_log) + 1 /\ calls[1] = NoCall /\ IngestStart
    \/ IngestLookup
    \/ IngestPut

SpecPipeline == InitPipeline /\ [][NextPipeline]_vars


(****************************** claims ************************************)
\* A run has ended by returning stats after the directory page was fetched
RunReturned == pc = "idle" /\ run > 0 /\ result.kind = "stats" /\ listing_ok

\* C1: a second sync run against the unchanged remote, neither run meeting a
\* failure, reports uploaded = 0 and deleted = 0 and leaves the store as the
\* first run left it.
C1_SecondRunIsNoOp ==
    (RunReturned /\ run >= 2 /\ prev_clean /\ RunClean(result, listing_ok, del_log))
        => /\ result.stats.uploaded = 0
           /\ result.stats.deleted = 0
           /\ store = store0

\* Number of processed items that took the given path
CountOutcome(o) == Cardinality({i \in 1..Len(item_log) : item_log[i].outcome = o})

\* Keys of the delete_object calls of the run, all and successful
DeleteCalls(k) == {i \in 1..Len(del_log) : del_log[i].key = k}
DeletedOk == {del_log[i].key : i \in {j \in 1..Len(del_log) : del_log[j].ok}}

\* The basenames of the items of the current remote listing
RemoteBasenames == {basename(files[i].name) : i \in 1..Len(files)}

\* The keys of the store under the configured prefix
UnderPrefix(st) == {k \in DOMAIN st : StartsWith(k, s3_prefix)}

\* The object at key k is the same in both stores (or absent from both)
SameObject(st1, st2, k) ==
    /\ (k \in DOMAIN st1) = (k \in DOMAIN st2)
    /\ k \in DOMAIN st1 => st1[k] = st2[k]

\* The calls that ended ran one after the other: each began after the call
\* before it had ended
IngestsInTurn == \A i \in 1..Len(ingest_log) : ingest_log[i].began = i - 1

\* The fingerprint of the upstream data, which no call changes
DataFingerprint == Md5Hex(json_bytes(CHOOSE d \in ApiResponses(api_data) : TRUE))

\* The calls that returned UPDATED or SKIPPED
IngestsAnswered ==
    {i \in 1..Len(ingest_log) : ingest_log[i].status \in {"UPDATED", "SKIPPED"}}

\* C2: of calls of ingest_population_data that run one after the other on
\* unchanged upstream data, the target key not holding the data's fingerprint
\* before the first of them, exactly one writes to the store: the first call
\* that returns UPDATED or SKIPPED returns UPDATED and is the one write, every
\* later one returns SKIPPED and does not write, all with the same
\* fingerprint; a call that returns neither (its API call, lookup or write
\* failed) writes nothing.
C2_OneWriteThenSkipped ==
    (IngestsInTurn /\ Len(ingest_log) >= 1
        /\ ingest_log[1].before # DataFingerprint) =>
        /\ Cardinality({i \in 1..Len(ingest_log) : ingest_log[i].wrote}) <= 1
        /\ \A i \in 1..Len(ingest_log) :
              ingest_log[i].wrote => ingest_log[i].status = "UPDATED"
        /\ \A i \in IngestsAnswered :
              /\ ingest_log[i].hash = DataFingerprint
              /\ IF \A j \in IngestsAnswered : j >= i
                 THEN ingest_log[i].status = "UPDATED" /\ ingest_log[i].wrote
                 ELSE ingest_log[i].status = "SKIPPED"

\* C3: after a run that fetched the listing and met no failure the store under
\* the prefix mirrors the remote: the normalized stored keys are the basenames
\* of the remote items, and every stored object has the fingerprint of a remote
\* item with its basename.
C3_StoreMirrorsRemote ==
    (RunReturned /\ RunClean(result, listing_ok, del_log)) =>
        /\ {norm_name(k, s3_prefix) : k \in UnderPrefix(store)} = RemoteBasenames
        /\ \A k \in UnderPrefix(store) :
              \E i \in 1..Len(files) :
                 /\ basename(files[i].name) = norm_name(k, s3_prefix)
                 /\ Md5Hex(store[k]) = Md5Hex(RemoteContent(files[i].url))

\* C4: an item whose bytes were fetched gets a put_object call exactly when its
\* basename is no key of existing_files or the fingerprint there differs from
\* the MD5 of the fetched bytes; otherwise it is skipped, skipped is
\* incremented and the store is not written.
C4_UploadDecision ==
    [][ (pc = "items" /\ idx' = idx + 1) =>
          LET e       == item_log'[idx]
              b       == basename(files[idx].name)
              content == RemoteContent(files[idx].url)
              need    == \/ b \notin DOMAIN existing_files
                         \/ existing_files[b] # Md5Hex(content)
          IN  e.fetched =>
                /\ need => e.outcome \in {"uploaded", "put_failed"}
                /\ e.outcome = "uploaded" =>
                      store' = PutObject(store, s3_key(s3_prefix, b), content)
                /\ e.outcome = "put_failed" => store' = store
                /\ ~need => /\ e.outcome = "skipped"
                            /\ store' = store
                            /\ stats'.skipped = stats.skipped + 1
                            /\ stats'.uploaded = stats.uploaded ]_vars

C4_Witness ==
    \E i, j \in 1..Len(item_log) :
        /\ item_log[i].outcome = "skipped"
        /\ item_log[j].outcome = "uploaded"
        /\ item_log[j].basename \in DOMAIN existing_files

\* C5 as stated: after a run every item of the listing is uploaded or skipped.
C5_UploadedOrSkipped ==
    RunReturned =>
        /\ Len(item_log) = Len(files)
        /\ \A i \in 1..Len(item_log) : item_log[i].outcome \in {"uploaded", "skipped"}
        /\ result.stats.uploaded + result.stats.skipped = Len(files)

\* C5 (amended): after a run every item of the listing is in exactly one of
\* uploaded, skipped and failed: every item was processed, the three counters
\* count the items that were uploaded, skipped and failed, and add up to the
\* number of items.
C5_UploadedSkippedOrFailed ==
    RunReturned =>
        /\ Len(item_log) = Len(files)
        /\ result.stats.uploaded = CountOutcome("uploaded")
        /\ result.stats.skipped = CountOutcome("skipped")
        /\ result.stats.failed = CountOutcome("fetch_failed") + CountOutcome("put_failed")
        /\ result.stats.uploaded + result.stats.skipped + result.stats.failed = Len(files)

C5_Witness ==
    /\ RunReturned
    /\ Len(files) = 2
    /\ CountOutcome("put_failed") = 1
    /\ CountOutcome("skipped") = 1

\* The name of a stored key with the configured prefix, and any separator
\* after it, taken off its front
name_under_prefix(key, prefix) ==
    IF StartsWith(key, prefix)
    THEN LStrip(SubSeq(key, Len(prefix) + 1, Len(key)), "/")
    ELSE key

\* C6: every object the deletion pass lists whose name under the prefix is no
\* basename of the remote listing gets exactly one delete_object call, which
\* when it succeeds removes the object and increments deleted by one, and no
\* other object gets a delete call.
C6_StaleDeletedOnce ==
    RunReturned =>
        /\ \A k \in del_listing :
              IF name_under_prefix(k, s3_prefix) \notin RemoteBasenames
              THEN /\ Cardinality(DeleteCalls(k)) = 1
                   /\ k \in DeletedOk => k \notin DOMAIN store
              ELSE DeleteCalls(k) = {}
        /\ \A i \in 1..Len(del_log) : del_log[i].key \in del_listing
        /\ result.stats.deleted = Cardinality(DeletedOk)

\* C7: a run that fetched the directory page and discovered no item returns
\* stats with all counts zero and deletes no object.
C7_NoItemsNoDeletion ==
    (RunReturned /\ files = <<>>) =>
        /\ result.stats = ZeroStats
        /\ del_log = <<>>
        /\ store = store0

\* The bucket st after the writes and deletes of the other process
RECURSIVE OtherWritesApplied(_, _)
OtherWritesApplied(st, log) ==
    IF log = <<>> THEN st
    ELSE OtherWritesApplied(IF Head(log).op = "put"
                            THEN PutObject(st, Head(log).key, Head(log).body)
                            ELSE DeleteObject(st, Head(log).key),
                            Tail(log))

\* C8: when the fetch of the directory page fails the run returns stats with
\* all counts zero, and makes no put and no delete: the store is as the run
\* found it, but for what another process wrote while the run waited for the
\* page.
C8_ListingFailureLeavesStore ==
    (pc = "idle" /\ run > 0 /\ result.kind = "stats" /\ ~listing_ok) =>
        /\ result.stats = ZeroStats
        /\ item_log = <<>>
        /\ del_log = <<>>
        /\ store = OtherWritesApplied(store0, other_log)
        /\ other_log = <<>> => store = store0

\* The directory fetch failed on a page with links and a bucket with objects
\* under the prefix, after the other process had put an object
C8_Witness ==
    /\ pc = "idle" /\ run > 0 /\ result.kind = "stats" /\ ~listing_ok
    /\ UnderPrefix(store) # {}
    /\ page # <<>>
    /\ other_log # <<>> /\ other_log[1].op = "put"
    /\ store # store0

\* C9: when the fetch of an item fails, failed counts it, the stored object of
\* that item is neither written nor deleted by the run, and every item of the
\* listing is still processed and the deletion pass still entered.
C9_FetchFailureIsolated ==
    RunReturned =>
        /\ Len(item_log) = Len(files)
        /\ result.stats.failed >= CountOutcome("fetch_failed")
        /\ \A i \in 1..Len(item_log) :
              ~item_log[i].fetched => SameObject(store, store0, item_log[i].key)

\* C10: a failed delete_object call does not increment deleted, and every
\* stale object listed after it still gets its delete call in the same run.
C10_DeleteFailureIsolated ==
    (RunReturned /\ \E i \in 1..Len(del_log) : ~del_log[i].ok) =>
        /\ result.stats.deleted = Cardinality({i \in 1..Len(del_log) : del_log[i].ok})
        /\ \A i \in 1..Len(del_log) : ~del_log[i].ok => del_log[i].key \in DOMAIN store
        /\ \A k \in del_listing :
              norm_name(k, s3_prefix) \notin RemoteBasenames => DeleteCalls(k) # {}

C10_Witness ==
    /\ RunReturned
    /\ Len(del_log) >= 2
    /\ ~del_log[1].ok
    /\ del_log[2].ok


\* C11: a call of ingest_population_data whose API request, status check or
\* JSON parse fails returns a result with status ERROR (it does not raise) and
\* leaves the store as it was.
C11_FetchFailureReturnsError ==
    [][ (/\ Len(ingest_log') = Len(ingest_log) + 1
         /\ ingest_log'[Len(ingest_log')].fetch # "ok")
        => (/\ ingest_log'[Len(ingest_log')].status = "ERROR"
            /\ store' = store) ]_vars

C11_Witness ==
    /\ Len(ingest_log) = 2
    /\ ingest_log[1].status = "UPDATED"
    /\ ingest_log[2].fetch = "bad_json"
    /\ ingest_log[2].status = "ERROR"
    /\ ingest_key(impl, s3_prefix) \in DOMAIN store


\* Two JSON values are the same up to the order of the members of their
\* objects, at every depth
RECURSIVE SameUpToKeyOrder(_, _)
SameUpToKeyOrder(x, y) ==
    /\ x.t = y.t
    /\ IF x.t = "num" THEN x.n = y.n
       ELSE /\ {x.items[i][1] : i \in 1..Len(x.items)}
                 = {y.items[j][1] : j \in 1..Len(y.items)}
            /\ Len(x.items) = Len(y.items)
            /\ \A i \in 1..Len(x.items), j \in 1..Len(y.items) :
                  x.items[i][1] = y.items[j][1]
                      => SameUpToKeyOrder(x.items[i][2], y.items[j][2])

\* C12: the fingerprint is computed on a canonical encoding: two payloads get
\* the same fingerprint when they differ only in the order of object keys (at
\* any depth), and different fingerprints when they differ in a value.
C12_FingerprintCanonical ==
    \A i \in 1..Len(fp), j \in 1..Len(fp) :
        SameUpToKeyOrder(fp[i].data, fp[j].data) <=> fp[i].hash = fp[j].hash

C12_Witness ==
    /\ Len(fp) = 2
    /\ fp[1].data = Obj(<< <<(<<"n">>), DocAB>>, <<(<<"a">>), Num(2)>> >>)
    /\ fp[2].data = Obj(<< <<(<<"a">>), Num(2)>>, <<(<<"n">>), DocBA>> >>)
    /\ fp[1].hash = fp[2].hash


\* The body of the response of the analytics invocation
AnBody == an_result.response.body

\* The analytics invocation has loaded both tables
TablesLoaded == an_result.done /\ an_result.loaded

\* C13: once the tables are loaded each of the three reports is run and has
\* its own status, whatever the other reports did: every entry of the result
\* is the outcome of its own report function on the loaded tables (its
\* return value, or an ERROR entry with the exception it raised).
C13_ReportsIsolated ==
    TablesLoaded =>
        /\ AnBody.task_a = report_entry(task_a_population_stats(an_result.df_pop))
        /\ \E df_annual_sorted \in annual_sorted(an_result.df_bls) :
              AnBody.task_b =
                  report_entry(task_b_best_year_report(an_result.df_bls,
                                                       df_annual_sorted))
        /\ AnBody.task_c = report_entry(task_c_unified_report(an_result.df_bls,
                                                              an_result.df_pop))
        /\ \A task \in {AnBody.task_a, AnBody.task_b, AnBody.task_c} :
              task.status \in {"SUCCESS", "ERROR"}

\* Task A raised, Task B succeeded after it, Task C raised
C13_Witness ==
    /\ TablesLoaded
    /\ task_a_population_stats(an_result.df_pop).raised
    /\ AnBody.task_a.status = "ERROR"
    /\ AnBody.task_b.status = "SUCCESS"
    /\ task_c_unified_report(an_result.df_bls, an_result.df_pop).raised
    /\ AnBody.task_c.status = "ERROR"

\* All three reports ran and each has status SUCCESS
AllReportsSucceeded ==
    \A task \in {AnBody.task_a, AnBody.task_b, AnBody.task_c} :
        task.status = "SUCCESS"

\* C14 as stated: the analytics invocation reports overall success (success
\* true, statusCode 200) exactly when all three reports ran and each has
\* status SUCCESS; in every other outcome, a load failure with no report run
\* included, success is false and statusCode is 500.
C14_SuccessFalseOtherwise ==
    an_result.done =>
        IF AllReportsSucceeded
        THEN /\ "success" \in AnBody.keys /\ AnBody.success
             /\ an_result.response.statusCode = 200
        ELSE /\ "success" \in AnBody.keys /\ ~AnBody.success
             /\ an_result.response.statusCode = 500

\* C14 (amended): an invocation that has S3_BUCKET_NAME reports overall
\* success (success true, statusCode 200) exactly when all three reports ran
\* and each has status SUCCESS, and in every other outcome, a load failure
\* with no report run included, success is false and statusCode is 500; an
\* invocation without S3_BUCKET_NAME returns statusCode 500 and a body that
\* holds the error message only, with no success field.
C14_SuccessIffAllSucceeded ==
    an_result.done =>
        IF an_result.configured
        THEN /\ "success" \in AnBody.keys
             /\ AnBody.success <=> AllReportsSucceeded
             /\ an_result.response.statusCode = IF AnBody.success THEN 200 ELSE 500
             /\ ~an_result.loaded => ~AllReportsSucceeded
        ELSE /\ AnBody.keys = {"error"}
             /\ AnBody.error = "S3_BUCKET_NAME not configured"
             /\ an_result.response.statusCode = 500
             /\ ~AllReportsSucceeded

\* The ingestion function replaced the population object while the
\* invocation was reading the fragments; all three reports succeeded
C14_Witness ==
    /\ TablesLoaded
    /\ \E i \in 1..Len(other_log) :
          other_log[i].op = "put" /\ other_log[i].key = PopulationFile
    /\ AllReportsSucceeded
    /\ an_result.response.statusCode = 200
    /\ AnBody.success

\* C15: when no stored object matches the selection rule of the time-series
\* fragments (none of the objects the listing of the bucket returns),
\* load_bls_master fails instead of returning an empty table, no report is
\* computed and the invocation returns a structured failure: status code 500,
\* success false and the error in the body.
C15_NoFragmentsIsFailure ==
    (/\ an_result.done /\ an_result.configured /\ an_result.list_ok
     /\ \A k \in DOMAIN an_result.listed :
           ~(StartsWith(k, full_prefix(s3_prefix)) /\ is_bls_fragment(k)))
    => /\ ~an_result.loaded
       /\ AnBody.task_a = NoReport /\ AnBody.task_b = NoReport
       /\ AnBody.task_c = NoReport
       /\ an_result.response.statusCode = 500
       /\ "success" \in AnBody.keys /\ ~AnBody.success
       /\ "error" \in AnBody.keys
       /\ AnBody.error = "No BLS files found under prefix"

\* The bucket the listing saw holds time-series files at its root and the
\* population object, the prefix is empty: the loader lists under "/" and
\* selects nothing
C15_Witness ==
    /\ an_result.done /\ an_result.configured /\ an_result.list_ok
    /\ an_result.get_ok
    /\ s3_prefix = PrefixEmpty
    /\ {DataMarker, PopulationFile} \subseteq DOMAIN an_result.listed
    /\ an_result.response.statusCode = 500
    /\ AnBody.error = "No BLS files found under prefix"


\* The loaded time-series table has the columns the reports read, the loaded
\* population table the columns year and population
BlsTableComplete == TablesLoaded /\ BlsCols \subseteq an_result.df_bls.cols

PopTableComplete ==
    TablesLoaded /\ {ColYear, ColPopulation} \subseteq an_result.df_pop.cols

\* The time-series rows whose (series_id, period) is the filter pair
MatchingRows ==
    {i \in 1..Len(an_result.df_bls.rows) :
        /\ an_result.df_bls.rows[i].series_id = DefaultSeries
        /\ an_result.df_bls.rows[i].period = DefaultPeriod}

\* C18: for every time-series table and every population table (missing
\* years, null years, several population rows of one year) the row_count of
\* the unified report is the number of time-series rows whose (series_id,
\* period) is the filter pair: the join neither drops nor duplicates rows.
C18_RowCountMatchesFilter ==
    (BlsTableComplete /\ PopTableComplete /\ MatchingRows # {})
    => /\ AnBody.task_c.status = "SUCCESS"
       /\ AnBody.task_c.row_count = Cardinality(MatchingRows)

\* The series_id values of the loaded time-series table
SeriesPresent ==
    {an_result.df_bls.rows[i].series_id : i \in 1..Len(an_result.df_bls.rows)}

\* The years of the rows of a series
YearsOf(sid) ==
    UNION {an_result.df_bls.rows[i].year :
           i \in {j \in 1..Len(an_result.df_bls.rows) :
                     an_result.df_bls.rows[j].series_id = sid}}

\* The sum of value over the rows of a series and a year, nulls counted as 0
RECURSIVE YearSum(_, _, _)
YearSum(sid, y, i) ==
    IF i > Len(an_result.df_bls.rows) THEN 0
    ELSE LET r == an_result.df_bls.rows[i]
         IN  (IF r.series_id = sid /\ r.year = {y} /\ r.value # {}
              THEN CHOOSE v \in r.value : TRUE ELSE 0)
             + YearSum(sid, y, i + 1)

\* C19: the best-period report holds for each series_id of the time-series
\* table exactly one (year, value) entry, whose value is the maximum over the
\* years of the per-(series_id, year) sum of value, nulls counted as 0.
C19_OneBestEntryPerSeries ==
    BlsTableComplete =>
        /\ AnBody.task_b.status = "SUCCESS"
        /\ \A sid \in SeriesPresent :
              LET entries == {i \in 1..Len(AnBody.task_b.results) :
                                AnBody.task_b.results[i].series_id = sid}
              IN  /\ Cardinality(entries) = 1
                  /\ \A i \in entries :
                        /\ AnBody.task_b.results[i].year \in YearsOf(sid)
                        /\ AnBody.task_b.results[i].value
                              = YearSum(sid, AnBody.task_b.results[i].year, 1)
                        /\ \A y \in YearsOf(sid) :
                              YearSum(sid, y, 1) <= AnBody.task_b.results[i].value

\* The population rows with 2013 <= year <= 2018
InRangeRows ==
    {i \in 1..Len(an_result.df_pop.rows) :
        \E y \in an_result.df_pop.rows[i].year : YearFrom <= y /\ y <= YearTo}

\* The sum of the non-null population of the rows with index in I
RECURSIVE PopSum(_)
PopSum(I) ==
    IF I = {} THEN 0
    ELSE LET i == CHOOSE j \in I : TRUE
         IN  (IF an_result.df_pop.rows[i].population = {} THEN 0
              ELSE CHOOSE v \in an_result.df_pop.rows[i].population : TRUE)
             + PopSum(I \ {i})

\* C20: the aggregate-statistics report keeps exactly the population rows
\* with 2013 <= year <= 2018 (bounds included, null years excluded): its
\* status is ERROR when no row is in range, and otherwise row_count is the
\* number of in-range rows, years the sorted distinct set of their years and
\* mean the mean of their population (of the non-null ones; nan if all are
\* null).
C20_AggregateOverYearRange ==
    PopTableComplete =>
        IF InRangeRows = {} THEN AnBody.task_a.status = "ERROR"
        ELSE LET a == AnBody.task_a
                 known == {i \in InRangeRows :
                             an_result.df_pop.rows[i].population # {}}
             IN  /\ a.status = "SUCCESS"
                 /\ a.row_count = Cardinality(InRangeRows)
                 /\ {a.years[k] : k \in 1..Len(a.years)}
                       = UNION {an_result.df_pop.rows[i].year : i \in InRangeRows}
                 /\ \A k \in 1..(Len(a.years) - 1) : a.years[k] < a.years[k + 1]
                 /\ IF known = {} THEN a.mean = NaN
                    ELSE /\ a.mean.den > 0
                         /\ a.mean.num * Cardinality(known) = a.mean.den * PopSum(known)

\* The rows {2013: 300, 2014: 305, 2015: 310} give mean 305 and row_count 3
C20_Witness ==
    /\ PopTableComplete
    /\ an_result.df_pop.rows = << [year |-> {2013}, population |-> {300}],
                                  [year |-> {2014}, population |-> {305}],
                                  [year |-> {2015}, population |-> {310}] >>
    /\ AnBody.task_a.status = "SUCCESS"
    /\ AnBody.task_a.mean = [num |-> 305, den |-> 1]
    /\ AnBody.task_a.row_count = 3
    /\ AnBody.task_a.years = <<2013, 2014, 2015>>


\* C16: both entry points return a structured status object for every
\* combination of stage outcomes: whenever an invocation of the ingestion
\* handler or of the analytics handler has ended, it has returned a response
\* with a status code and a body of per-stage entries, each with a status of
\* its own; no exception of a stage has left the handler.
C16_HandlersReturnStatus ==
    /\ hpc = "done" =>
          /\ h_result.kind = "response"
          /\ h_result.statusCode \in {200, 500}
          /\ h_env.configured =>
                /\ h_result.body.bls_sync.status \in {"STATS", "ERROR", "SKIPPED"}
                /\ h_result.body.population_ingest.status
                      \in {"UPDATED", "SKIPPED", "ERROR"}
                /\ h_result.body.success \in BOOLEAN
    /\ an_result.done =>
          /\ an_result.response.kind = "response"
          /\ an_result.response.statusCode \in {200, 500}
          /\ \A task \in {AnBody.task_a, AnBody.task_b, AnBody.task_c} :
                task.status \in {"None", "SUCCESS", "ERROR"}
          /\ AnBody.success \in BOOLEAN

\* The sync raised (a listing failed) and the ingestor raised (head_object
\* failed with an exception that is no ClientError): the handler returned
C16_Witness ==
    /\ hpc = "done"
    /\ result.kind = "raised"
    /\ Len(ingest_log) = 1 /\ ingest_log[1].status = "RAISED"
    /\ h_result.kind = "response"
    /\ h_result.body.bls_sync.status = "ERROR"
    /\ h_result.body.population_ingest.status = "ERROR"

\* C17: in the ingestion pipeline a failure of the store during the sync
\* stage aborts the run (the population stage is not executed) and the handler
\* returns a terminal error status: success false and a status code that is
\* not a success code.
C17_SyncFailureAborts ==
    (hpc = "done" /\ h_env.configured /\ h_env.bls_url /\ result.kind = "raised")
    => /\ ingest_log = <<>>
       /\ h_result.kind = "response"
       /\ ~h_result.body.success
       /\ h_result.statusCode # 200


\* C21: the deletion pass of a sync run makes no delete_object call on the
\* object of an item of the current remote listing (the key the run stores the
\* item's basename at): not on an object the run uploaded, not on a stored
\* object whose item failed to fetch in the run.
C21_CurrentItemsNotDeleted ==
    \A i \in 1..Len(item_log), d \in 1..Len(del_log) :
        del_log[d].key # item_log[i].key


\* C22: within one sync run the fingerprint map is listed once, at the start,
\* and no step of the run or of another process changes it; the upload/skip
\* decision of every fetched item is the one the bucket as it was at the start
\* of the run gives; and the deletion pass lists the bucket as it is after the
\* last item was processed.
C22_DecisionsOnStartListing ==
    [][ /\ (pc = "idle" /\ pc' # "idle")
             => existing_files' = get_existing_files(store, s3_prefix)
        /\ pc # "idle" => existing_files' = existing_files
        /\ (pc = "items" /\ idx' = idx + 1) =>
             LET e        == item_log'[idx]
                 content  == RemoteContent(files[idx].url)
                 at_start == get_existing_files(store0, s3_prefix)
                 need     == \/ e.basename \notin DOMAIN at_start
                             \/ at_start[e.basename] # Md5Hex(content)
             IN  e.fetched => (e.outcome = "skipped" <=> ~need)
        /\ (pc = "items" /\ pc' = "deleting")
             => del_listing' = UnderPrefix(store) ]_vars

\* The other process created an object with an item's bytes at the item's key
\* before the run processed the item, the run uploaded the item all the same,
\* and the deletion pass listed that key, which the start listing did not have
C22_Witness ==
    /\ pc = "deleting"
    /\ \E w \in 1..Len(other_log), i \in 1..Len(item_log) :
          /\ other_log[w].op = "put"
          /\ other_log[w].idx <= i
          /\ other_log[w].key = item_log[i].key
          /\ other_log[w].body = RemoteContent(files[i].url)
          /\ item_log[i].outcome = "uploaded"
          /\ other_log[w].key \in del_listing \ DOMAIN store0


\* C23: at every point of a sync run (so wherever it is stopped) every object
\* under the prefix is as it was before the run or holds the fetched bytes of
\* the remote item stored at its key; and a complete failure-free run after a
\* stopped one leaves the store an uninterrupted failure-free run from the
\* stopped run's starting store would have left.
C23_StoppedRunConverges ==
    /\ \A k \in UnderPrefix(store) :
          \/ SameObject(store, store0, k)
          \/ \E i \in 1..Len(files) :
                /\ s3_key(s3_prefix, basename(files[i].name)) = k
                /\ store[k] = RemoteContent(files[i].url)
    /\ (RunReturned /\ run = 2 /\ stopped.happened
        /\ RunClean(result, listing_ok, del_log))
          => store = sync_bls_to_s3(stopped.store0, s3_prefix, page)


\* C24: in both implementations of ingest_population_data, when the lookup of
\* the existing object fails for a reason other than the object not existing,
\* the call returns ERROR and writes nothing.
C24_LookupFailureIsError ==
    \A i \in 1..Len(ingest_log) :
        ingest_log[i].lookup = "failed"
            => ingest_log[i].status = "ERROR" /\ ~ingest_log[i].wrote


\* C25: over pipeline runs on one bucket (a sync run, then the population
\* ingest), the deletion pass of a sync run makes no delete_object call on the
\* population object once the Dataset Ingestor has written it, whatever the
\* configured prefix; and once a call returned UPDATED or SKIPPED, a later call
\* on the unchanged data whose API call and lookup succeed returns SKIPPED.
C25_PopulationObjectKept ==
    /\ (pc # "idle" /\ \E i \in 1..Len(ingest_log) : ingest_log[i].wrote)
          => \A d \in 1..Len(del_log) :
                del_log[d].key # ingest_key(impl, s3_prefix)
    /\ \A i, j \in 1..Len(ingest_log) :
          (/\ i < j
           /\ ingest_log[i].status \in {"UPDATED", "SKIPPED"}
           /\ ingest_log[j].lookup = "ok")
             => ingest_log[j].status = "SKIPPED"


\* C26: during a sync run no counter of stats ever decreases, and the stats
\* returned by a run that got past the fetch of the directory page satisfy
\* uploaded + skipped + failed = number of items of the remote listing,
\* uploaded = number of put_object calls that succeeded and deleted = number of
\* delete_object calls that succeeded.
C26_StatsAccounting ==
    [][ /\ pc # "idle" =>
             /\ stats'.uploaded >= stats.uploaded
             /\ stats'.skipped >= stats.skipped
             /\ stats'.failed >= stats.failed
             /\ stats'.deleted >= stats.deleted
        /\ (pc' = "idle" /\ run' > 0 /\ result'.kind = "stats" /\ listing_ok') =>
             /\ result'.stats.uploaded + result'.stats.skipped
                  + result'.stats.failed = Len(files')
             /\ result'.stats.uploaded =
                  Cardinality({i \in 1..Len(item_log') :
                                 item_log'[i].outcome = "uploaded"})
             /\ result'.stats.deleted =
                  Cardinality({d \in 1..Len(del_log') : del_log'[d].ok}) ]_vars

\* A returned run with an uploaded item, an item whose fetch failed, a
\* delete_object call that succeeded and one that failed
C26_Witness ==
    /\ RunReturned
    /\ Len(files) = 2
    /\ result.stats.uploaded = 1
    /\ result.stats.failed = 1
    /\ result.stats.deleted = 1
    /\ Len(del_log) = 2


\* C27: for every configured prefix, every time-series fragment a sync run
\* uploaded (to prefix + basename) and that is in the bucket is among the keys
\* load_bls_master selects when called with the same prefix; and after a call
\* of ingest_population_data that wrote the population object, the key
\* load_population_df reads holds an object.
C27_LoaderFindsStoredObjects ==
    /\ \A i \in 1..Len(item_log) :
          (/\ item_log[i].outcome = "uploaded"
           /\ Contains(item_log[i].basename, DataMarker)
           /\ item_log[i].key \in DOMAIN store)
             => \E n \in 1..Len(bls_keys(store, s3_prefix)) :
                   bls_keys(store, s3_prefix)[n] = item_log[i].key
    /\ (pc = "idle" /\ Len(ingest_log) = run /\ run > 0 /\ ingest_log[run].wrote)
          => PopulationFile \in DOMAIN store

=============================================================================
